---------------------------- MODULE Spec2Model ----------------------------
(***************************************************************************)
(* Model of the ICAP message parser of rama-icap (src/rama-icap/src/       *)
(* parser.rs): MessageParser, a push-driven state machine over a receive   *)
(* buffer.                                                                 *)
(*                                                                         *)
(* A byte is a one-character string ("\r" and "\n" are CR and LF, "xFF" is *)
(* a byte that is not valid UTF-8).  A byte string is a sequence of bytes. *)
(* An Option is a sequence of length 0 (None) or 1 (Some).                 *)
(***************************************************************************)
EXTENDS Integers, Sequences, FiniteSets, TLC

\* ------------------------------------------------------------------ bytes

CR == "\r"
LF == "\n"
SP == " "
TAB == "\t"
COLON == ":"
BAD == "xFF"

None == <<>>
Some(x) == <<x>>

UpperAlpha == <<"A","B","C","D","E","F","G","H","I","J","K","L","M",
                "N","O","P","Q","R","S","T","U","V","W","X","Y","Z">>
LowerAlpha == <<"a","b","c","d","e","f","g","h","i","j","k","l","m",
                "n","o","p","q","r","s","t","u","v","w","x","y","z">>
DecDigits == <<"0","1","2","3","4","5","6","7","8","9">>

Range(s) == {s[i] : i \in DOMAIN s}
IndexOf(s, c) == CHOOSE i \in DOMAIN s : s[i] = c

\* u8::to_ascii_lowercase
ToLower(c) == IF c \in Range(UpperAlpha) THEN LowerAlpha[IndexOf(UpperAlpha, c)] ELSE c
LowerStr(s) == [i \in DOMAIN s |-> ToLower(s[i])]

Drop(s, n) == SubSeq(s, n + 1, Len(s))
Take(s, n) == SubSeq(s, 1, n)
StartsWith(s, p) == Len(s) >= Len(p) /\ Take(s, Len(p)) = p

\* Position of the first b in s, 0 when there is none.
FirstIndex(s, b) ==
    IF \E i \in DOMAIN s : s[i] = b
    THEN CHOOSE i \in DOMAIN s : s[i] = b /\ \A j \in 1..(i - 1) : s[j] # b
    ELSE 0

\* slice::split: the pieces of s between the occurrences of sep (never empty).
RECURSIVE Split(_, _)
Split(s, sep) ==
    LET i == FirstIndex(s, sep)
    IN IF i = 0 THEN <<s>> ELSE <<Take(s, i - 1)>> \o Split(Drop(s, i), sep)

\* str::trim: the whitespace bytes of the model's alphabet.
WhiteSpace == {SP, TAB, CR, LF}
RECURSIVE TrimStart(_)
TrimStart(s) == IF s # <<>> /\ Head(s) \in WhiteSpace THEN TrimStart(Tail(s)) ELSE s
RECURSIVE TrimEnd(_)
TrimEnd(s) ==
    IF s # <<>> /\ s[Len(s)] \in WhiteSpace THEN TrimEnd(Take(s, Len(s) - 1)) ELSE s
Trim(s) == TrimEnd(TrimStart(s))

\* std::str::from_utf8 succeeds: no byte of s is outside UTF-8.
Utf8Ok(s) == \A i \in DOMAIN s : s[i] # BAD

\* String::from_utf8_lossy: an invalid byte becomes U+FFFD (EF BF BD).
RECURSIVE Utf8Lossy(_)
Utf8Lossy(s) ==
    LET i == FirstIndex(s, BAD)
    IN IF i = 0 THEN s
       ELSE Take(s, i - 1) \o <<"xEF", "xBF", "xBD">> \o Utf8Lossy(Drop(s, i))

\* Value of a digit string in the given radix (digits already validated).
HexDigits == <<"0","1","2","3","4","5","6","7","8","9","a","b","c","d","e","f">>
RECURSIVE DigitsValue(_, _, _)
DigitsValue(s, radix, acc) ==
    IF s = <<>> THEN acc
    ELSE DigitsValue(Tail(s), radix,
                     acc * radix + (IndexOf(HexDigits, ToLower(Head(s))) - 1))

U16Max == 65535

\* str::parse::<u16>: an optional '+', then one or more decimal digits, no
\* overflow.  None when it fails.
ParseU16(s) ==
    LET d == IF s # <<>> /\ Head(s) = "+" THEN Tail(s) ELSE s
    IN IF d = <<>> \/ \E i \in DOMAIN d : d[i] \notin Range(DecDigits) THEN None
       ELSE IF DigitsValue(d, 10, 0) > U16Max THEN None
       ELSE Some(DigitsValue(d, 10, 0))

\* ----------------------------------------------------------- the parser

\* Error values (crate::Error): a kind and its detail string.
Error(kind, detail) == [kind |-> kind, detail |-> detail]

\* What a step of the parser gives back: the parser after it, Ok(true) or
\* Ok(false), or the error that `?` propagates.
StepOk(p, more) == [p |-> p, ok |-> more, err |-> None]
StepErr(p, e) == [p |-> p, ok |-> FALSE, err |-> Some(e)]

\* MessageParser::new
NewParser ==
    [state |-> "StartLine", headers |-> <<>>, encapsulated |-> <<>>,
     buffer |-> <<>>, method |-> None, uri |-> None, version |-> None,
     status |-> None, reason |-> None, sections |-> <<>>]

\* Mutant of LineAdvance: the LF is left in the buffer.
LineAdvance_KeepsLF(i) == i

\* read_line: self.buffer.advance(i + 1), i the (0-based) index of the LF.
LineAdvance(i) == i + 1

\* Mutant of PopCR: every CR at the end of the line is removed.
RECURSIVE PopCR_All(_)
PopCR_All(raw) ==
    IF raw # <<>> /\ raw[Len(raw)] = CR THEN PopCR_All(Take(raw, Len(raw) - 1)) ELSE raw

\* read_line: if line.ends_with(b"\r") { line.pop(); }
PopCR(raw) ==
    IF raw # <<>> /\ raw[Len(raw)] = CR THEN Take(raw, Len(raw) - 1) ELSE raw

\* MessageParser::read_line: the line up to the first LF, without the LF and
\* without one CR before it; the buffer advanced past the LF.
read_line(p) ==
    LET i == FirstIndex(p.buffer, LF) - 1
        raw == Take(p.buffer, i)
        line == PopCR(raw)
    IN IF i < 0 THEN [p |-> p, line |-> None]
       ELSE [p |-> [p EXCEPT !.buffer = Drop(p.buffer, LineAdvance(i))],
             line |-> Some(line)]

B_ICAP == <<"I","C","A","P","/">>
B_ICAP10 == <<"I","C","A","P","/","1",".","0">>
B_ICAP11 == <<"I","C","A","P","/","1",".","1">>
B_REQMOD == <<"R","E","Q","M","O","D">>
B_RESPMOD == <<"R","E","S","P","M","O","D">>
B_OPTIONS == <<"O","P","T","I","O","N","S">>

\* MessageParser::parse_version: [v |-> Option<Version>, err |-> Option<Error>]
parse_version(bytes) ==
    IF Len(bytes) < 8 THEN [v |-> None, err |-> None]
    ELSE IF StartsWith(bytes, B_ICAP10) THEN [v |-> Some("V1_0"), err |-> None]
    ELSE IF StartsWith(bytes, B_ICAP11) THEN [v |-> Some("V1_1"), err |-> None]
    ELSE IF StartsWith(bytes, B_ICAP)
         THEN [v |-> None, err |-> Some(Error("InvalidVersion", "Invalid version"))]
    ELSE [v |-> None, err |-> None]

\* Mutant of MethodOf: the token is matched without regard to case.
MethodOf_IgnoreCase(tok) ==
    IF LowerStr(tok) = LowerStr(B_REQMOD) THEN Some("ReqMod")
    ELSE IF LowerStr(tok) = LowerStr(B_RESPMOD) THEN Some("RespMod")
    ELSE IF LowerStr(tok) = LowerStr(B_OPTIONS) THEN Some("Options")
    ELSE None

\* The method a request token names (None: no method).
MethodOf(tok) ==
    IF tok = B_REQMOD THEN Some("ReqMod")
    ELSE IF tok = B_RESPMOD THEN Some("RespMod")
    ELSE IF tok = B_OPTIONS THEN Some("Options")
    ELSE None

\* Mutant of StartLineResponse: the reason is folded to lower case.
StartLineResponse_ReasonFolded(p, parts, v) ==
    LET p1 == [p EXCEPT !.version = v]
        st == IF Utf8Ok(parts[2]) THEN ParseU16(parts[2]) ELSE None
        p2 == [p1 EXCEPT !.status = st]
    IN IF st = None THEN StepErr(p1, Error("InvalidStatus", ""))
       ELSE IF ~Utf8Ok(parts[3])
            THEN StepErr(p2, Error("InvalidFormat", "Invalid reason"))
       ELSE StepOk([p2 EXCEPT !.reason = Some(LowerStr(parts[3]))], TRUE)

\* The response branch of parse_start_line, version already recognised.
StartLineResponse(p, parts, v) ==
    LET p1 == [p EXCEPT !.version = v]
        st == IF Utf8Ok(parts[2]) THEN ParseU16(parts[2]) ELSE None
        p2 == [p1 EXCEPT !.status = st]
    IN IF st = None THEN StepErr(p1, Error("InvalidStatus", ""))
       ELSE IF ~Utf8Ok(parts[3])
            THEN StepErr(p2, Error("InvalidFormat", "Invalid reason"))
       ELSE StepOk([p2 EXCEPT !.reason = Some(parts[3])], TRUE)

\* The request branch of parse_start_line.
StartLineRequest(p, parts) ==
    LET m == MethodOf(parts[1])
        p1 == [p EXCEPT !.method = m]
        p2 == [p1 EXCEPT !.uri = Some(parts[2])]
        pv == parse_version(parts[3])
    IN IF m = None THEN StepErr(p, Error("InvalidMethod", "Invalid method"))
       ELSE IF ~Utf8Ok(parts[2]) THEN StepErr(p1, Error("InvalidFormat", "Invalid URI"))
       ELSE IF pv.err # None THEN StepErr(p2, pv.err[1])
       ELSE IF pv.v = None
            THEN StepErr(p2, Error("InvalidVersion", "Invalid version"))
       ELSE StepOk([p2 EXCEPT !.version = pv.v], TRUE)

\* Mutant of TokenCountOk: extra tokens after the third are ignored.
TokenCountOk_AtLeastThree(parts) == Len(parts) >= 3

\* parse_start_line: parts.len() != 3 is an error.
TokenCountOk(parts) == Len(parts) = 3

\* MessageParser::parse_start_line
parse_start_line(p) ==
    LET r == read_line(p)
        line == r.line[1]
        parts == Split(line, SP)
        pv == parse_version(parts[1])
    IN IF r.line = None THEN StepOk(p, FALSE)
       ELSE IF line = <<>> THEN StepOk(r.p, FALSE)
       ELSE IF ~TokenCountOk(parts)
            THEN StepErr(r.p, Error("InvalidMethod", "Incomplete message received"))
       ELSE IF pv.err # None THEN StepErr(r.p, pv.err[1])
       ELSE IF pv.v # None THEN StartLineResponse(r.p, parts, pv.v)
       ELSE StartLineRequest(r.p, parts)

\* ---------------------------------------------------------------- headers

MAX_HEADERS == 100
MAX_HEADER_NAME_LEN == 100
MAX_HEADER_VALUE_LEN == 4096

\* HeaderMap: a function from (lower-case) names to values.
EmptyMap == <<>>
MapInsert(m, k, v) == [x \in (DOMAIN m) \cup {k} |-> IF x = k THEN v ELSE m[x]]
\* HeaderMap::get: the name is looked up in its canonical (lower-case) form.
HeaderGet(m, name) ==
    IF LowerStr(name) \in DOMAIN m THEN Some(m[LowerStr(name)]) ELSE None

\* HeaderName::from_bytes accepts a non-empty RFC 7230 token and stores it in
\* lower case (of the token punctuation, the bytes the model's inputs use).
HeaderNameChars ==
    Range(UpperAlpha) \cup Range(LowerAlpha) \cup Range(DecDigits)
        \cup {"-", "_", ".", "+"}
HeaderNameOk(name) == name # <<>> /\ \A i \in DOMAIN name : name[i] \in HeaderNameChars
\* HeaderValue::from_str rejects the control bytes (other than TAB).
HeaderValueOk(v) == \A i \in DOMAIN v : v[i] \notin {CR, LF}

B_ENCAPSULATED == <<"e","n","c","a","p","s","u","l","a","t","e","d">>

\* The length of the value that parse_headers compares with
\* MAX_HEADER_VALUE_LEN: the post-colon bytes as they are on the wire.
CheckedValueLen(value) == Len(value)

\* Mutant of NameTooLong: a name of MAX_HEADER_NAME_LEN bytes is too long.
NameTooLong_AtLimit(name) == Len(name) >= MAX_HEADER_NAME_LEN

\* parse_headers: name.len() > MAX_HEADER_NAME_LEN
NameTooLong(name) == Len(name) > MAX_HEADER_NAME_LEN

\* Mutant of HeaderNameFromBytes: the name is stored as it was written.
HeaderNameFromBytes_KeepsCase(name) == name

\* HeaderName::from_bytes(name): the name in its canonical, lower-case form
\* (the name is validated by HeaderNameOk).
HeaderNameFromBytes(name) == LowerStr(name)

\* Mutant of ColonIndex: the line is split at its last colon.
ColonIndex_Last(line) ==
    IF \E i \in DOMAIN line : line[i] = COLON
    THEN CHOOSE i \in DOMAIN line :
            line[i] = COLON /\ \A j \in DOMAIN line : line[j] = COLON => j <= i
    ELSE 0

\* line.splitn(2, ':'): where the line is split, 0 when it has no colon.
ColonIndex(line) == FirstIndex(line, COLON)

\* One non-empty header line (parse_headers, the body of its loop):
\* [p, err, enc] with enc = the line is the Encapsulated header.
HeaderLine(p, line) ==
    LET c == ColonIndex(line)
        name == Take(line, c - 1)
        value == Drop(line, c)
        hname == HeaderNameFromBytes(name)
        hvalue == Trim(Utf8Lossy(value))
        p1 == [p EXCEPT !.headers = MapInsert(p.headers, hname, hvalue)]
        fail(q, e) == [p |-> q, err |-> Some(e), enc |-> FALSE]
    IN IF c = 0 THEN fail(p, Error("InvalidFormat", "Missing header value"))
       ELSE IF NameTooLong(name)
            THEN fail(p, Error("Protocol", "Message too large"))
       ELSE IF CheckedValueLen(value) > MAX_HEADER_VALUE_LEN
            THEN fail(p, Error("Protocol", "Message too large"))
       ELSE IF ~HeaderNameOk(name) THEN fail(p, Error("InvalidHeaderName", ""))
       ELSE IF ~HeaderValueOk(hvalue) THEN fail(p, Error("InvalidHeaderValue", ""))
       ELSE IF Cardinality(DOMAIN p1.headers) > MAX_HEADERS
            THEN fail(p1, Error("Protocol", "Message too large"))
       ELSE [p |-> p1, err |-> None, enc |-> LowerStr(name) = B_ENCAPSULATED]

\* Mutant of HeadersEnd: the Encapsulated header is never required.
HeadersEnd_NeverRequired(p, found_encapsulated) ==
    StepOk([p EXCEPT !.state = "EncapsulatedHeader"], TRUE)

\* Mutant of HeadersEnd: every request, OPTIONS too, needs the header.
HeadersEnd_OptionsToo(p, found_encapsulated) ==
    IF found_encapsulated \/ p.status # None \/ p.method = None
    THEN StepOk([p EXCEPT !.state = "EncapsulatedHeader"], TRUE)
    ELSE StepErr(p, Error("Protocol", "Missing encapsulated header"))

\* parse_headers at the empty line that ends the header block.
HeadersEnd(p, found_encapsulated) ==
    LET done == StepOk([p EXCEPT !.state = "EncapsulatedHeader"], TRUE)
    IN IF found_encapsulated THEN done
       ELSE IF p.status # None THEN done
       ELSE IF p.method # None /\ p.method # Some("Options")
            THEN StepErr(p, Error("Protocol", "Missing encapsulated header"))
       ELSE done

\* parse_headers, one iteration of its while loop: the parser and
\* found_encapsulated after it, and what the loop returns (None: it goes on).
headers_step(p, found_encapsulated) ==
    LET r == read_line(p)
        h == HeaderLine(r.p, r.line[1])
        ret(q, res) == [p |-> q, found |-> found_encapsulated, ret |-> Some(res)]
    IN IF r.line = None THEN ret(p, StepOk(p, FALSE))
       ELSE IF r.line[1] = <<>> THEN ret(r.p, HeadersEnd(r.p, found_encapsulated))
       ELSE IF h.err # None THEN ret(h.p, StepErr(h.p, h.err[1]))
       ELSE [p |-> h.p, found |-> found_encapsulated \/ h.enc, ret |-> None]

\* n iterations of the loop (n >= 1), or fewer when it returns before.
RECURSIVE headers_iter(_, _, _)
headers_iter(p, found_encapsulated, n) ==
    IF n <= 1 THEN headers_step(p, found_encapsulated)
    ELSE LET a == headers_iter(p, found_encapsulated, n \div 2)
         IN IF a.ret # None THEN a
            ELSE headers_iter(a.p, a.found, n - (n \div 2))

\* parse_headers, its while loop: found_encapsulated is a local of the call.
\* The loop returns at the latest when read_line finds no LF, after one
\* iteration per LF in the buffer.
headers_loop(p, found_encapsulated) ==
    headers_iter(p, found_encapsulated,
                 Cardinality({i \in DOMAIN p.buffer : p.buffer[i] = LF}) + 1).ret[1]

\* The value found_encapsulated has when parse_headers is entered.
FoundEncapsulatedAtEntry(p) == FALSE

\* MessageParser::parse_headers
parse_headers(p) == headers_loop(p, FoundEncapsulatedAtEntry(p))

\* ------------------------------------------------------------ Encapsulated

\* str::parse::<usize>: an optional '+', then one or more decimal digits.
ParseUsize(s) ==
    LET d == IF s # <<>> /\ Head(s) = "+" THEN Tail(s) ELSE s
    IN IF d = <<>> \/ \E i \in DOMAIN d : d[i] \notin Range(DecDigits) THEN None
       ELSE Some(DigitsValue(d, 10, 0))

\* The six section names of the Encapsulated header.
B_NULL_BODY == <<"n","u","l","l","-","b","o","d","y">>
B_REQ_HDR == <<"r","e","q","-","h","d","r">>
B_REQ_BODY == <<"r","e","q","-","b","o","d","y">>
B_RES_HDR == <<"r","e","s","-","h","d","r">>
B_RES_BODY == <<"r","e","s","-","b","o","d","y">>
B_OPT_BODY == <<"o","p","t","-","b","o","d","y">>

\* A match that takes every other name for null-body.
SectionTypeOf_OtherIsNull(name) ==
    IF name = B_NULL_BODY THEN Some("NullBody")
    ELSE IF name = B_REQ_HDR THEN Some("RequestHeader")
    ELSE IF name = B_REQ_BODY THEN Some("RequestBody")
    ELSE IF name = B_RES_HDR THEN Some("ResponseHeader")
    ELSE IF name = B_RES_BODY THEN Some("ResponseBody")
    ELSE IF name = B_OPT_BODY THEN Some("OptionsBody")
    ELSE Some("NullBody")
\* parse_encapsulated, its match on the section name.
SectionTypeOf(name) ==
    IF name = B_NULL_BODY THEN Some("NullBody")
    ELSE IF name = B_REQ_HDR THEN Some("RequestHeader")
    ELSE IF name = B_REQ_BODY THEN Some("RequestBody")
    ELSE IF name = B_RES_HDR THEN Some("ResponseHeader")
    ELSE IF name = B_RES_BODY THEN Some("ResponseBody")
    ELSE IF name = B_OPT_BODY THEN Some("OptionsBody")
    ELSE None

\* The offset token of an item as parse_encapsulated hands it to parse.
OffsetToken(tok) == tok

\* One item of the Encapsulated value: [sec |-> Option<(type, offset)>, err].
EncapsulatedItem(section) ==
    LET parts == Split(Trim(section), "=")
        name == LowerStr(Trim(parts[1]))
        offset == ParseUsize(OffsetToken(parts[2]))
        ty == SectionTypeOf(name)
        fail(d) == [sec |-> None, err |-> Some(Error("Protocol", d))]
    IN IF Len(parts) < 2 THEN fail("Missing header value")
       ELSE IF offset = None THEN fail("Invalid header value offset")
       ELSE IF ty = None THEN fail("Invalid encapsulated header")
       ELSE [sec |-> Some([type |-> ty[1], offset |-> offset[1]]), err |-> None]

\* The items of the value, in order, up to the first error.
RECURSIVE EncapsulatedItems(_)
EncapsulatedItems(items) ==
    IF items = <<>> THEN [secs |-> <<>>, err |-> None]
    ELSE LET it == EncapsulatedItem(Head(items))
             rest == EncapsulatedItems(Tail(items))
         IN IF it.err # None THEN [secs |-> <<>>, err |-> it.err]
            ELSE IF rest.err # None THEN rest
            ELSE [secs |-> <<it.sec[1]>> \o rest.secs, err |-> None]

\* Stable insertion of x into a sequence sorted by offset.
RECURSIVE InsertByOffset(_, _)
InsertByOffset(sorted, x) ==
    IF sorted = <<>> THEN <<x>>
    ELSE IF x.offset < Head(sorted).offset THEN <<x>> \o sorted
    ELSE <<Head(sorted)>> \o InsertByOffset(Tail(sorted), x)

\* sections.sort_by_key(|(_, offset)| *offset): a stable sort.
RECURSIVE SortByOffset(_)
SortByOffset(secs) ==
    IF secs = <<>> THEN <<>>
    ELSE InsertByOffset(SortByOffset(Take(secs, Len(secs) - 1)), secs[Len(secs)])

\* self.encapsulated.insert(section_type, Vec::new()) for each section.
RECURSIVE InitSections(_, _)
InitSections(m, secs) ==
    IF secs = <<>> THEN m
    ELSE InitSections(MapInsert(m, Head(secs).type, <<>>), Tail(secs))

\* HeaderValue::to_str succeeds: visible ASCII only.
ToStrOk(v) == \A i \in DOMAIN v : v[i] \notin {"xEF", "xBF", "xBD"}

\* MessageParser::parse_encapsulated
parse_encapsulated(p) ==
    LET enc == HeaderGet(p.headers, B_ENCAPSULATED)
        items == EncapsulatedItems(Split(enc[1], ","))
        sections == SortByOffset(items.secs)
    IN IF enc = None THEN StepOk([p EXCEPT !.state = "Body"], TRUE)
       ELSE IF ~ToStrOk(enc[1]) THEN StepErr(p, Error("Protocol", "Invalid encoding"))
       ELSE IF items.err # None THEN StepErr(p, items.err[1])
       ELSE StepOk([p EXCEPT !.encapsulated = InitSections(p.encapsulated, sections),
                             !.sections = sections,
                             !.state = "Body"], TRUE)

\* -------------------------------------------------------------------- body

Min(a, b) == IF a < b THEN a ELSE b

\* A panic of the program (an index out of bounds, an unwrap of None) is an
\* outcome of its own, carried like an error through the steps.
Panic(detail) == Error("panic", detail)

\* usize::from_str_radix(s, 16): an optional '+', then one or more hex digits.
ParseHex(s) ==
    LET d == IF s # <<>> /\ Head(s) = "+" THEN Tail(s) ELSE s
    IN IF d = <<>> \/ \E i \in DOMAIN d : ToLower(d[i]) \notin Range(HexDigits) THEN None
       ELSE Some(DigitsValue(d, 16, 0))

\* parse_body, the inner while loop: the size line from pos (0-based) up to a
\* CRLF or to end_offset.  buffer[pos] panics when pos is not in the buffer.
RECURSIVE ReadSize(_, _, _, _)
ReadSize(buf, pos, end_offset, size_str) ==
    IF pos >= end_offset THEN [pos |-> pos, str |-> size_str, panic |-> FALSE]
    ELSE IF pos >= Len(buf) THEN [pos |-> pos, str |-> size_str, panic |-> TRUE]
    ELSE IF buf[pos + 1] = CR /\ pos + 1 < end_offset
         THEN IF pos + 1 >= Len(buf)
              THEN [pos |-> pos, str |-> size_str, panic |-> TRUE]
              ELSE IF buf[pos + 2] = LF
                   THEN [pos |-> pos + 2, str |-> size_str, panic |-> FALSE]
                   ELSE ReadSize(buf, pos + 1, end_offset, Append(size_str, CR))
    ELSE ReadSize(buf, pos + 1, end_offset, Append(size_str, buf[pos + 1]))

\* What the chunk loop does when pos reaches end_offset without having seen a
\* zero-size chunk.
AtRangeEnd(chunk_data) == [kind |-> "data", data |-> chunk_data, err |-> None]

\* Mutant of AtZeroChunk: the rest of the range is added to the payload.
AtZeroChunk_KeepsRest(buf, pos, end_offset, chunk_data) ==
    [kind |-> "data",
     data |-> chunk_data \o SubSeq(buf, pos + 1, Min(end_offset, Len(buf))),
     err |-> None]

\* What the chunk loop does at a chunk of size 0, pos after its size line:
\* `break`, whatever is left of the range.
AtZeroChunk(buf, pos, end_offset, chunk_data) ==
    [kind |-> "data", data |-> chunk_data, err |-> None]

\* parse_body, the outer while loop over the chunks of [pos, end_offset):
\* kind is "data" (the section's payload), "more" (Ok(false)) or "err".
RECURSIVE DecodeChunks(_, _, _, _)
DecodeChunks(buf, pos, end_offset, chunk_data) ==
    LET rs == ReadSize(buf, pos, end_offset, <<>>)
        size == ParseHex(Trim(rs.str))
        n == size[1]
        q == rs.pos + n
        out(k, e) == [kind |-> k, data |-> <<>>, err |-> e]
    IN IF pos >= end_offset THEN AtRangeEnd(chunk_data)
       ELSE IF rs.panic THEN out("err", Some(Panic("index out of bounds")))
       ELSE IF size = None THEN out("err", Some(Error("Protocol", "Invalid chunk size")))
       ELSE IF n = 0 THEN AtZeroChunk(buf, rs.pos, end_offset, chunk_data)
       ELSE IF rs.pos + n + 2 > end_offset THEN out("more", None)
       ELSE IF q >= Len(buf) THEN out("err", Some(Panic("index out of bounds")))
       ELSE IF buf[q + 1] # CR
            THEN out("err", Some(Error("Protocol", "Invalid chunk encoding")))
       ELSE IF q + 1 >= Len(buf) THEN out("err", Some(Panic("index out of bounds")))
       ELSE IF buf[q + 2] = LF
            THEN DecodeChunks(buf, q + 2, end_offset,
                              chunk_data \o SubSeq(buf, rs.pos + 1, q))
       ELSE out("err", Some(Error("Protocol", "Invalid chunk encoding")))

\* Mutant of ChunkedSections: a response body is copied as it is.
ChunkedSections_RequestOnly == {"RequestBody"}

\* The section kinds parse_body chunk-decodes.
ChunkedSections == {"RequestBody", "ResponseBody"}

\* Mutant of EndOffset: every section runs to the end of the buffer.
EndOffset_ToBufferEnd(p, i) == Len(p.buffer)

\* parse_body, the end of section i's range (i is 1-based here).
EndOffset(p, i) ==
    IF i < Len(p.sections) THEN p.sections[i + 1].offset ELSE Len(p.buffer)

\* parse_body: `*data = section_data` when the map has the section's key.
StoreSection(p, type, data) ==
    IF type \in DOMAIN p.encapsulated
    THEN [p EXCEPT !.encapsulated = MapInsert(p.encapsulated, type, data)]
    ELSE p

\* parse_body, its for loop from section i on.
RECURSIVE body_loop(_, _)
body_loop(p, i) ==
    LET sec == p.sections[i]
        start_offset == sec.offset
        end_offset == EndOffset(p, i)
        dec == DecodeChunks(p.buffer, start_offset, end_offset, <<>>)
        raw == SubSeq(p.buffer, start_offset + 1, Min(end_offset, Len(p.buffer)))
    IN IF i > Len(p.sections) THEN StepOk([p EXCEPT !.state = "Complete"], TRUE)
       ELSE IF Len(p.buffer) < start_offset THEN StepOk(p, FALSE)
       ELSE IF ~(start_offset < Len(p.buffer)) THEN body_loop(p, i + 1)
       ELSE IF sec.type \in ChunkedSections
            THEN IF dec.kind = "err" THEN StepErr(p, dec.err[1])
                 ELSE IF dec.kind = "more" THEN StepOk(p, FALSE)
                 ELSE body_loop(StoreSection(p, sec.type, dec.data), i + 1)
       ELSE body_loop(StoreSection(p, sec.type, raw), i + 1)

\* MessageParser::parse_body
parse_body(p) == body_loop(p, 1)

\* ---------------------------------------------------------------- message

\* crate::Encapsulated, one record shape for its five variants (a field a
\* variant does not have is None).  A header section is surfaced as
\* Request::default() / Response::default(), whatever its bytes.
Encap(variant, req_header, req_body, res_header, res_body, opt_body) ==
    [variant |-> variant, req_header |-> req_header, req_body |-> req_body,
     res_header |-> res_header, res_body |-> res_body, opt_body |-> opt_body]

SectionBody(p, type) ==
    IF type \in DOMAIN p.encapsulated THEN Some(p.encapsulated[type]) ELSE None
SectionHeader(p, type) ==
    IF type \in DOMAIN p.encapsulated THEN Some("default") ELSE None

\* build_encapsulated, the arms of its match on the request and response
\* sections, and the default arm.
build_from_sections(p) ==
    LET has(t) == t \in DOMAIN p.encapsulated
        req == has("RequestHeader") \/ has("RequestBody")
        res == has("ResponseHeader") \/ has("ResponseBody")
    IN IF req /\ res
       THEN Encap("RequestResponse",
                  SectionHeader(p, "RequestHeader"), SectionBody(p, "RequestBody"),
                  SectionHeader(p, "ResponseHeader"), SectionBody(p, "ResponseBody"),
                  None)
       ELSE IF req
            THEN Encap("RequestOnly",
                       SectionHeader(p, "RequestHeader"), SectionBody(p, "RequestBody"),
                       None, None, None)
       ELSE IF res
            THEN Encap("ResponseOnly", None, None,
                       SectionHeader(p, "ResponseHeader"), SectionBody(p, "ResponseBody"),
                       None)
       ELSE Encap("NullBody", None, None, None, None, None)

\* Mutant of build_encapsulated: opt-body is looked at before null-body.
build_encapsulated_OptionsFirst(p) ==
    IF "OptionsBody" \in DOMAIN p.encapsulated
    THEN Encap("Options", None, None, None, None, SectionBody(p, "OptionsBody"))
    ELSE IF "NullBody" \in DOMAIN p.encapsulated
         THEN Encap("NullBody", None, None, None, None, None)
    ELSE build_from_sections(p)

\* MessageParser::build_encapsulated
build_encapsulated(p) ==
    IF "NullBody" \in DOMAIN p.encapsulated
    THEN Encap("NullBody", None, None, None, None, None)
    ELSE IF "OptionsBody" \in DOMAIN p.encapsulated
         THEN Encap("Options", None, None, None, None, SectionBody(p, "OptionsBody"))
    ELSE build_from_sections(p)

\* crate::IcapMessage, one record shape for Request and Response.
RequestMessage(p) ==
    [tag |-> "Request", method |-> p.method, uri |-> p.uri, version |-> p.version,
     status |-> None, reason |-> None, headers |-> p.headers,
     encapsulated |-> build_encapsulated(p)]
ResponseMessage(p) ==
    [tag |-> "Response", method |-> None, uri |-> None, version |-> p.version,
     status |-> p.status, reason |-> IF p.reason = None THEN Some(<<>>) ELSE p.reason,
     headers |-> p.headers, encapsulated |-> build_encapsulated(p)]

\* MessageParser::build_message: [msg |-> Option<IcapMessage>, err |-> Option<Error>]
build_message(p) ==
    IF p.method # None /\ p.status = None
    THEN IF p.uri = None \/ p.version = None
         THEN [msg |-> None, err |-> Some(Panic("unwrap on None"))]
         ELSE [msg |-> Some(RequestMessage(p)), err |-> None]
    ELSE IF p.method = None /\ p.status # None
    THEN IF p.version = None
         THEN [msg |-> None, err |-> Some(Panic("unwrap on None"))]
         ELSE [msg |-> Some(ResponseMessage(p)), err |-> None]
    ELSE [msg |-> None, err |-> Some(Error("Protocol", "Invalid message"))]

\* ------------------------------------------------------------------- parse

\* What parse returns: Ok(None), Ok(Some(message)), Err(error), or a panic.
OkNone == [tag |-> "None", msg |-> None, err |-> None]
OkSome(m) == [tag |-> "Some", msg |-> Some(m), err |-> None]
Failure(e) ==
    [tag |-> IF e.kind = "panic" THEN "Panic" ELSE "Err", msg |-> None, err |-> Some(e)]

\* Mutant of ResetAfterMessage: the state is left at Complete.
ResetAfterMessage_KeepsState(p) ==
    [p EXCEPT !.headers = EmptyMap, !.encapsulated = EmptyMap, !.buffer = <<>>]

\* parse, State::Complete: what is reset once the message is built.
ResetAfterMessage(p) ==
    [p EXCEPT !.state = "StartLine", !.headers = EmptyMap,
              !.encapsulated = EmptyMap, !.buffer = <<>>]

\* The step of the driver loop for p.state.
StateStep(p) ==
    CASE p.state = "StartLine" -> parse_start_line(p)
      [] p.state = "Headers" -> parse_headers(p)
      [] p.state = "EncapsulatedHeader" -> parse_encapsulated(p)
      [] p.state = "Body" -> parse_body(p)

\* Mutant of NextState: after the body the loop starts a second pass.
NextState_SecondPass(s) ==
    CASE s = "StartLine" -> "Headers"
      [] s = "Headers" -> "EncapsulatedHeader"
      [] s = "EncapsulatedHeader" -> "Body"
      [] s = "Body" -> "StartLine"

\* The state the driver loop assigns after a step that returned Ok(true).
NextState(s) ==
    CASE s = "StartLine" -> "Headers"
      [] s = "Headers" -> "EncapsulatedHeader"
      [] s = "EncapsulatedHeader" -> "Body"
      [] s = "Body" -> "Complete"

\* parse, its loop: [p |-> the parser afterwards, res |-> the value returned,
\* steps |-> the states matched by the iterations of the loop, in order].
RECURSIVE parse_loop(_)
parse_loop(p) ==
    IF p.state = "Complete"
    THEN LET b == build_message(p)
         IN IF b.err # None
            THEN [p |-> p, res |-> Failure(b.err[1]), steps |-> <<p.state>>]
            ELSE [p |-> ResetAfterMessage(p), res |-> OkSome(b.msg[1]),
                  steps |-> <<p.state>>]
    ELSE LET r == StateStep(p)
         IN IF r.err # None
            THEN [p |-> r.p, res |-> Failure(r.err[1]), steps |-> <<p.state>>]
            ELSE IF ~r.ok THEN [p |-> r.p, res |-> OkNone, steps |-> <<p.state>>]
            ELSE [parse_loop([r.p EXCEPT !.state = NextState(p.state)])
                     EXCEPT !.steps = <<p.state>> \o @]

\* Mutant of parse: the pushed bytes replace the buffer instead of extending it.
parse_ReplacesBuffer(p, buf) == parse_loop([p EXCEPT !.buffer = buf])

\* MessageParser::parse
parse(p, buf) == parse_loop([p EXCEPT !.buffer = p.buffer \o buf])

\* ------------------------------------------------------------- the inputs

CRLF == <<CR, LF>>
StartLine(a, b, c) == a \o <<SP>> \o b \o <<SP>> \o c \o CRLF
Header(name, value) == name \o <<COLON, SP>> \o value \o CRLF

W_URI == <<"/","m">>
W_200 == <<"2","0","0">>
W_OK == <<"O","K">>
W_FOO == <<"F","O","O">>
W_Host == <<"H","o","s","t">>
W_x == <<"x">>
W_Server == <<"S","e","r","v","e","r">>
W_IcapServer == <<"I","c","a","p","S","e","r","v","e","r","/","1",".","0">>
W_Connection == <<"C","o","n","n","e","c","t","i","o","n">>
W_close == <<"c","l","o","s","e">>
W_Encapsulated == <<"E","n","c","a","p","s","u","l","a","t","e","d">>
W_null_body_0 == B_NULL_BODY \o <<"=","0">>
W_respmod_secs ==
    B_REQ_HDR \o <<"=","0",",",SP>> \o B_RES_HDR \o <<"=","4",",",SP>>
        \o B_RES_BODY \o <<"=","8">>
W_req_hdr_bytes == <<"G","E","T",LF>>
W_res_hdr_bytes == <<"2","0","0",LF>>
W_chunked == <<"2",CR,LF,"a","b",CR,LF, "1",CR,LF,"c",CR,LF, "0",CR,LF,CR,LF>>

\* OPTIONS without Encapsulated (scenario 2 of the specification).
M_OPTIONS == StartLine(B_OPTIONS, W_URI, B_ICAP10) \o Header(W_Host, W_x) \o CRLF
\* A response without Encapsulated.
M_RESP_PLAIN == StartLine(B_ICAP11, W_200, W_OK) \o Header(W_Host, W_x) \o CRLF
\* A response with null-body=0.
M_RESP_NULL ==
    StartLine(B_ICAP10, W_200, W_OK) \o Header(W_Encapsulated, W_null_body_0) \o CRLF
\* Scenario 1 of the specification, byte for byte.
M_SCENARIO_1 ==
    StartLine(B_ICAP10, W_200, W_OK) \o Header(W_Server, W_IcapServer)
        \o Header(W_Connection, W_close) \o Header(W_Encapsulated, W_null_body_0) \o CRLF
\* REQMOD with null-body=0.
M_REQMOD_NULL ==
    StartLine(B_REQMOD, W_URI, B_ICAP10) \o Header(W_Encapsulated, W_null_body_0) \o CRLF
\* RESPMOD with request headers, response headers and a chunked body
\* (scenario 5 of the specification, shortened).
M_RESPMOD_BODY ==
    StartLine(B_RESPMOD, W_URI, B_ICAP10) \o Header(W_Encapsulated, W_respmod_secs)
        \o CRLF \o W_req_hdr_bytes \o W_res_hdr_bytes \o W_chunked
\* REQMOD and RESPMOD without Encapsulated (scenario 3).
M_REQMOD_MISSING == StartLine(B_REQMOD, W_URI, B_ICAP10) \o Header(W_Host, W_x) \o CRLF
M_RESPMOD_MISSING == StartLine(B_RESPMOD, W_URI, B_ICAP10) \o Header(W_Host, W_x) \o CRLF
\* An invalid method (scenario 4).
M_BAD_METHOD == StartLine(W_FOO, W_URI, B_ICAP10) \o CRLF

\* The messages a stream is made of; the first NumWellFormed are well-formed.
Catalogue ==
    << M_OPTIONS, M_RESP_PLAIN, M_RESP_NULL, M_REQMOD_NULL, M_RESPMOD_BODY,
       M_SCENARIO_1, M_REQMOD_MISSING, M_RESPMOD_MISSING, M_BAD_METHOD >>
WellFormedIds == 1..6

\* The bounds of the model: the messages of a stream, its bytes, and the
\* bytes that follow its first message.
MaxMessages == 2
MaxStreamLen == 100
MaxFollowLen == 49

\* The bytes of the messages ids of the catalogue cat, one after the other.
RECURSIVE BytesOf(_, _)
BytesOf(cat, ids) ==
    IF ids = <<>> THEN <<>> ELSE cat[Head(ids)] \o BytesOf(cat, Tail(ids))
StreamBytes(ids) == BytesOf(Catalogue, ids)

Streams ==
    {ids \in UNION {[1..n -> DOMAIN Catalogue] : n \in 1..MaxMessages} :
        /\ Len(StreamBytes(ids)) <= MaxStreamLen
        /\ Len(StreamBytes(Tail(ids))) <= MaxFollowLen}

\* ------------------------------------------------------------ ByteParser

\* ByteParser::new: a cursor over bytes, at position 0.
ByteParser_new(bytes) == [bytes |-> bytes, pos |-> 0]

\* ByteParser::peek: bytes.get(pos).copied(), None at or past the end.
ByteParser_peek(c) ==
    IF c.pos < Len(c.bytes) THEN Some(c.bytes[c.pos + 1]) ELSE None

\* ByteParser::advance: pos += 1, whatever the length of bytes.
ByteParser_advance(c) == [c EXCEPT !.pos = @ + 1]

\* The outcome of indexing a slice by a range: the bytes, or the panic of an
\* index past the end.
Sliced(bytes) == [val |-> Some(bytes), err |-> None]
SliceIndexPanic == [val |-> None, err |-> Some(Panic("slice index out of range"))]

\* ByteParser::slice: &bytes[..pos].
ByteParser_slice(c) ==
    IF c.pos > Len(c.bytes) THEN SliceIndexPanic ELSE Sliced(Take(c.bytes, c.pos))

\* ByteParser::remaining: &bytes[pos..].
ByteParser_remaining(c) ==
    IF c.pos > Len(c.bytes) THEN SliceIndexPanic ELSE Sliced(Drop(c.bytes, c.pos))

\* ByteParser::position.
ByteParser_position(c) == c.pos

\* ------------------------------------------------------ the state machine

VARIABLES
    state, headers, encapsulated, buffer, method, uri, version, status, reason,
    sections,      \* the fields of MessageParser
    stream,        \* the messages the peer sends on this connection
    input,         \* the bytes of the stream not pushed yet
    lastResult,    \* what the last parse call returned
    out,           \* the messages returned so far, in order
    errored,       \* some parse call has returned Err
    bytewise,      \* every parse call so far was given exactly one byte
    byteParser,    \* a ByteParser: the slice it was made over and its pos
    advances       \* the number of advance calls made on byteParser

parserVars ==
    <<state, headers, encapsulated, buffer, method, uri, version, status, reason,
      sections>>
vars ==
    <<parserVars, stream, input, lastResult, out, errored, bytewise, byteParser,
      advances>>

\* The parser object as one record.
Self ==
    [state |-> state, headers |-> headers, encapsulated |-> encapsulated,
     buffer |-> buffer, method |-> method, uri |-> uri, version |-> version,
     status |-> status, reason |-> reason, sections |-> sections]

NoCall == [tag |-> "NoCall", msg |-> None, err |-> None]

\* A fresh parser and a stream drawn from streams, whose messages are named by
\* their index in the catalogue cat.
InitOf(cat, streams) ==
    /\ state = NewParser.state
    /\ headers = NewParser.headers
    /\ encapsulated = NewParser.encapsulated
    /\ buffer = NewParser.buffer
    /\ method = NewParser.method
    /\ uri = NewParser.uri
    /\ version = NewParser.version
    /\ status = NewParser.status
    /\ reason = NewParser.reason
    /\ sections = NewParser.sections
    /\ stream \in streams
    /\ input = BytesOf(cat, stream)
    /\ lastResult = NoCall
    /\ out = <<>>
    /\ errored = FALSE
    /\ bytewise = TRUE
    /\ byteParser = ByteParser_new(<<>>)
    /\ advances = 0

InitWith(streams) == InitOf(Catalogue, streams)

Init == InitWith(Streams)

\* One call parser.parse(buf), buf the next k bytes of the stream.
Parse(k) ==
    \E r \in {parse(Self, Take(input, k))} :
       /\ state' = r.p.state
       /\ headers' = r.p.headers
       /\ encapsulated' = r.p.encapsulated
       /\ buffer' = r.p.buffer
       /\ method' = r.p.method
       /\ uri' = r.p.uri
       /\ version' = r.p.version
       /\ status' = r.p.status
       /\ reason' = r.p.reason
       /\ sections' = r.p.sections
       /\ input' = Drop(input, k)
       /\ lastResult' = r.res
       /\ out' = IF r.res.tag = "Some" THEN Append(out, r.res.msg[1]) ELSE out
       /\ errored' = (errored \/ r.res.tag = "Err")
       /\ bytewise' = (bytewise /\ k = 1)
       /\ UNCHANGED <<stream, byteParser, advances>>

\* A panic ends the use of the parser: the caller's task unwinds.
Next == lastResult.tag # "Panic" /\ \E k \in 0..Len(input) : Parse(k)

Spec == Init /\ [][Next]_vars

\* ------------------------------------------------- start lines as inputs

\* First tokens of a request line: the three methods and near misses.
MethodTokens ==
    << B_REQMOD, B_RESPMOD, B_OPTIONS, LowerStr(B_OPTIONS),
       <<"O","p","t","i","o","n","s">>, B_REQMOD \o <<"X">>, Take(B_REQMOD, 5),
       W_FOO, <<"G","E","T">>, <<>> >>
\* Version tokens: the two versions, others in the ICAP/ space, and foreign ones.
VersionTokens ==
    << B_ICAP10, B_ICAP11, B_ICAP \o <<"1",".","2">>, B_ICAP \o <<"2",".","0">>,
       B_ICAP \o <<"1">>, B_ICAP10 \o <<"x">>, B_ICAP11 \o <<".","1">>,
       LowerStr(B_ICAP10), <<"H","T","T","P","/","1",".","1">> >>
\* Status tokens around the limits of the status range and of u16.
StatusTokens ==
    << <<"0">>, <<"9","9">>, <<"1","0","0">>, <<"5","9","9">>, <<"6","0","0">>,
       <<"6","5","5","3","5">>, <<"6","5","5","3","6">>, <<"2","x">>, <<>>,
       <<"0","2","0","0">> >>
\* Lines that do not split into three tokens, and tokens that are not UTF-8.
OddLines ==
    << B_OPTIONS, B_OPTIONS \o <<SP>> \o W_URI, B_ICAP10 \o <<SP>> \o W_200,
       B_ICAP10 \o <<SP, "4","0","4", SP, "N","o","t", SP, "F","o","u","n","d">>,
       B_REQMOD \o <<SP, "/","a", SP, "b", SP>> \o B_ICAP10,
       B_OPTIONS \o <<SP>> \o W_URI \o <<SP, SP>> \o B_ICAP10,
       <<SP>>,
       B_OPTIONS \o <<SP, BAD, SP>> \o B_ICAP10,
       B_ICAP10 \o <<SP>> \o W_200 \o <<SP, BAD>> >>

\* Each start line as a message without headers: the line and an empty line.
StartLineCatalogue ==
    [i \in DOMAIN MethodTokens |-> StartLine(MethodTokens[i], W_URI, B_ICAP10) \o CRLF]
    \o [i \in DOMAIN Tail(VersionTokens) |->
           StartLine(B_OPTIONS, W_URI, Tail(VersionTokens)[i]) \o CRLF]
    \o [i \in DOMAIN VersionTokens |-> StartLine(VersionTokens[i], W_200, W_OK) \o CRLF]
    \o [i \in DOMAIN StatusTokens |-> StartLine(B_ICAP10, StatusTokens[i], W_OK) \o CRLF]
    \o [i \in DOMAIN OddLines |-> OddLines[i] \o CRLF \o CRLF]

\* The bound of this specification: the longest start line fed.
MaxStartLineLen == 22
StartLineIds ==
    {i \in DOMAIN StartLineCatalogue :
        Len(StartLineCatalogue[i]) <= MaxStartLineLen + 2 * Len(CRLF)}
\* The message a start line may follow on the connection: a response.
PrecedingId ==
    CHOOSE i \in DOMAIN StartLineCatalogue :
        StartLineCatalogue[i] = StartLine(B_ICAP10, W_200, W_OK) \o CRLF
StartLineStreams ==
    {<<i>> : i \in StartLineIds} \cup {<<PrecedingId, i>> : i \in StartLineIds}

InitStartLine == InitOf(StartLineCatalogue, StartLineStreams)
SpecStartLine == InitStartLine /\ [][Next]_vars

\* ------------------------------------------- inputs at the size limits

Fill(b, n) == [i \in 1..n |-> b]
\* The i-th of a family of distinct two-letter header names.
HeaderNameNo(i) == <<LowerAlpha[((i - 1) \div 26) + 1], LowerAlpha[((i - 1) % 26) + 1]>>
\* A header line without a space after the colon.
TightHeader(name, value) == name \o <<COLON>> \o value \o CRLF
\* n header lines, with distinct names or all with the same name.
RECURSIVE HeaderLines(_, _)
HeaderLines(n, distinct) ==
    IF n = 0 THEN <<>>
    ELSE HeaderLines(n - 1, distinct)
         \o Header(IF distinct THEN HeaderNameNo(n) ELSE W_Host, W_x)
\* An OPTIONS request with the given header lines.
OptionsWith(lines) == StartLine(B_OPTIONS, W_URI, B_ICAP10) \o lines \o CRLF

\* The longest line the specification lets the line reader accept: a name, a
\* value, and the delimiters ": " and CRLF.
LineCap == MAX_HEADER_NAME_LEN + MAX_HEADER_VALUE_LEN + Len(<<COLON, SP>> \o CRLF)

\* The bound of this specification: how far past a limit the inputs go.
MaxOver == 2
\* The sizes around a limit: from one below it to MaxOver above it.
Around(limit) == [i \in 1..(MaxOver + 2) |-> limit - 2 + i]

LimitCatalogue ==
    [i \in DOMAIN Around(MAX_HEADER_NAME_LEN) |->
        OptionsWith(Header(Fill("a", Around(MAX_HEADER_NAME_LEN)[i]), W_x))]
    \o [i \in DOMAIN Around(MAX_HEADER_VALUE_LEN) |->
        OptionsWith(Header(W_Host, Fill("v", Around(MAX_HEADER_VALUE_LEN)[i])))]
    \o [i \in DOMAIN Around(MAX_HEADER_VALUE_LEN) |->
        OptionsWith(TightHeader(W_Host, Fill("v", Around(MAX_HEADER_VALUE_LEN)[i])))]
    \o [i \in DOMAIN Around(MAX_HEADERS) |->
        OptionsWith(HeaderLines(Around(MAX_HEADERS)[i], TRUE))]
    \o [i \in DOMAIN Around(MAX_HEADERS) |->
        OptionsWith(HeaderLines(Around(MAX_HEADERS)[i], FALSE))]
    \o << Fill("a", 2 * LineCap),
          StartLine(B_OPTIONS, W_URI, B_ICAP10) \o Fill("a", 2 * LineCap) >>
LimitStreams == {<<i>> : i \in DOMAIN LimitCatalogue}

\* The deliveries of a long input: up to the middle of its next line, up to
\* the end of that line, or all that is left.
NextLineEnd(b) == IF FirstIndex(b, LF) = 0 THEN Len(b) ELSE FirstIndex(b, LF)
Deliveries(b) == {(NextLineEnd(b) + 1) \div 2, NextLineEnd(b), Len(b)}

InitLimits == InitOf(LimitCatalogue, LimitStreams)
NextLimits == lastResult.tag # "Panic" /\ \E k \in Deliveries(input) : Parse(k)
SpecLimits == InitLimits /\ [][NextLimits]_vars

\* ------------------------------------- Encapsulated declarations as inputs

\* The six section names, and the sets of them by number: name i is in set m
\* when bit i - 1 of m is set.
SectionNames == <<B_NULL_BODY, B_OPT_BODY, B_REQ_HDR, B_REQ_BODY, B_RES_HDR, B_RES_BODY>>
InSet(m, i) == (m \div (2 ^ (i - 1))) % 2 = 1
SetSize(m) == Cardinality({i \in DOMAIN SectionNames : InSet(m, i)})
\* The Encapsulated value that declares the sections of set m from name i
\* on, each at offset 0 (a section without bytes).
RECURSIVE Declarations(_, _)
Declarations(m, i) ==
    IF i > Len(SectionNames) THEN <<>>
    ELSE IF ~InSet(m, i) THEN Declarations(m, i + 1)
    ELSE SectionNames[i] \o <<"=", "0">>
         \o (IF \E j \in (i + 1)..Len(SectionNames) : InSet(m, j) THEN <<",", SP>> ELSE <<>>)
         \o Declarations(m, i + 1)
\* The header block that declares set m: no Encapsulated header for no section.
DeclaringHeaders(m) ==
    IF m = 0 THEN Header(W_Host, W_x) ELSE Header(W_Encapsulated, Declarations(m, 1))

\* A response and a RESPMOD request for each set of sections.
VariantCatalogue ==
    [k \in 1..(2 ^ Len(SectionNames)) |->
        StartLine(B_ICAP10, W_200, W_OK) \o DeclaringHeaders(k - 1) \o CRLF]
    \o [k \in 1..(2 ^ Len(SectionNames)) |->
        StartLine(B_RESPMOD, W_URI, B_ICAP10) \o DeclaringHeaders(k - 1) \o CRLF]

\* The bound of this specification: the sections one message declares.
MaxSections == 3
VariantStreams ==
    {<<k>> : k \in {k \in DOMAIN VariantCatalogue :
                       SetSize((k - 1) % (2 ^ Len(SectionNames))) <= MaxSections}}

InitVariants == InitOf(VariantCatalogue, VariantStreams)
SpecVariants == InitVariants /\ [][NextLimits]_vars

\* ------------------------------------------ RESPMOD requests as inputs

\* A number in decimal and in hexadecimal digits.
RECURSIVE ToDigits(_, _)
ToDigits(n, radix) ==
    IF n < radix THEN <<HexDigits[n + 1]>>
    ELSE ToDigits(n \div radix, radix) \o <<HexDigits[(n % radix) + 1]>>
\* The chunked encoding of a sequence of data blocks, none of them empty,
\* ended by a zero-size chunk.
RECURSIVE Chunked(_)
Chunked(blocks) ==
    IF blocks = <<>> THEN <<"0">> \o CRLF \o CRLF
    ELSE ToDigits(Len(Head(blocks)), 16) \o CRLF \o Head(blocks) \o CRLF
         \o Chunked(Tail(blocks))
\* The data blocks put end to end.
RECURSIVE Joined(_)
Joined(blocks) == IF blocks = <<>> THEN <<>> ELSE Head(blocks) \o Joined(Tail(blocks))

\* 'req-hdr=0, res-hdr=A, res-body=B'
RespmodDeclaration(a, b) ==
    B_REQ_HDR \o <<"=", "0", ",", SP>> \o B_RES_HDR \o <<"=">> \o ToDigits(a, 10)
        \o <<",", SP>> \o B_RES_BODY \o <<"=">> \o ToDigits(b, 10)
\* The RESPMOD request with request headers d.req, response headers d.res and
\* the data blocks d.blocks as its chunked response body.
RespmodMessage(d) ==
    StartLine(B_RESPMOD, W_URI, B_ICAP10)
        \o Header(W_Encapsulated, RespmodDeclaration(Len(d.req), Len(d.req) + Len(d.res)))
        \o CRLF \o d.req \o d.res \o Chunked(d.blocks)

\* Encapsulated header sections: empty, short, and with an empty line in them.
HeaderSections ==
    { <<>>, W_req_hdr_bytes,
      <<"G","E","T",SP,"/",CR,LF,"H",":","x",CR,LF,CR,LF>> }
\* Data blocks: text, ten bytes (size 'a'), and bytes that look like framing.
DataBlocks ==
    { <<"a","b">>, <<"0",CR,LF,CR,LF>>, <<"1","2","3","4","5","6","7","8","9","0">> }

\* The bound of this specification: the chunks of a body.
MaxChunks == 2
RespmodInputs ==
    [req : HeaderSections, res : HeaderSections,
     blocks : UNION {[1..n -> DataBlocks] : n \in 0..MaxChunks}]
RespmodCatalogue == [d \in RespmodInputs |-> RespmodMessage(d)]

InitRespmod == InitOf(RespmodCatalogue, {<<d>> : d \in RespmodInputs})
SpecRespmod == InitRespmod /\ [][NextLimits]_vars

\* ------------------------------------------------- responses as inputs

\* The two versions as tokens.
VersionToken(v) == IF v = "V1_0" THEN B_ICAP10 ELSE B_ICAP11
\* Status tokens with the number each one writes.
StatusCases ==
    { [tok |-> <<"1","0","0">>, val |-> 100], [tok |-> W_200, val |-> 200],
      [tok |-> <<"4","0","4">>, val |-> 404], [tok |-> <<"5","9","9">>, val |-> 599] }
\* Reason tokens: upper and lower case, a TAB inside, and the empty token.
ReasonCases == { W_OK, LowerStr(W_OK), <<"N","o","t",TAB,"F","n","d">>, <<>> }
\* Header lines by their name, the bytes after the colon, and the value these
\* bytes have once trimmed.  No two of them have the same name.
HeaderCases ==
    << [name |-> W_Server, raw |-> <<SP>> \o W_IcapServer, value |-> W_IcapServer],
       [name |-> W_Connection, raw |-> <<SP>> \o W_close, value |-> W_close],
       [name |-> W_Encapsulated, raw |-> <<SP>> \o W_null_body_0, value |-> W_null_body_0],
       [name |-> <<"I","S","T","a","g">>, raw |-> <<"a","-","1">>, value |-> <<"a","-","1">>],
       [name |-> <<"X","-","P","A","D">>, raw |-> <<SP,TAB,"a",SP,SP,"b",TAB,SP>>,
        value |-> <<"a",SP,SP,"b">>],
       [name |-> <<"D","a","t","e">>, raw |-> <<SP,"0","9",":","5","2">>,
        value |-> <<"0","9",":","5","2">>],
       [name |-> <<"x","-","e","m","p","t","y">>, raw |-> <<SP>>, value |-> <<>>] >>
\* n of the header cases, from case s on (around the list).
HeaderBlock(s, n) == [i \in 1..n |-> HeaderCases[((s + i - 2) % Len(HeaderCases)) + 1]]
RECURSIVE BlockBytes(_)
BlockBytes(block) ==
    IF block = <<>> THEN <<>>
    ELSE Head(block).name \o <<COLON>> \o Head(block).raw \o CRLF
         \o BlockBytes(Tail(block))

\* The bound of this specification: the header lines of a response.
MaxHeaderLines == 3
ResponseInputs ==
    [version : {"V1_0", "V1_1"}, status : StatusCases, reason : ReasonCases,
     block : {HeaderBlock(s, n) : s \in DOMAIN HeaderCases, n \in 0..MaxHeaderLines}]
\* The response 'VERSION STATUS REASON' with the header block of d.
ResponseBytes(d) ==
    StartLine(VersionToken(d.version), d.status.tok, d.reason)
        \o BlockBytes(d.block) \o CRLF
ResponseCatalogue == [d \in ResponseInputs |-> ResponseBytes(d)]
ResponseStreams == {<<d>> : d \in ResponseInputs}

InitResponse == InitOf(ResponseCatalogue, ResponseStreams)
SpecResponse == InitResponse /\ [][NextLimits]_vars

\* ------------------------------------------ streams for the state cycle

\* A response whose Encapsulated header names no section kind.
M_BAD_ENCAPSULATED ==
    StartLine(B_ICAP10, W_200, W_OK) \o Header(W_Encapsulated, <<"x", "=", "0">>) \o CRLF
CycleCatalogue == Catalogue \o <<M_BAD_ENCAPSULATED>>

\* The bound of this specification: the bytes of a stream.
MaxCycleLen == 110
\* A message of the catalogue, alone or after another one.
CycleStreams ==
    {ids \in {<<i>> : i \in DOMAIN CycleCatalogue}
                \cup {<<j, i>> : j \in DOMAIN CycleCatalogue, i \in DOMAIN CycleCatalogue} :
        Len(BytesOf(CycleCatalogue, ids)) <= MaxCycleLen}

InitCycle == InitOf(CycleCatalogue, CycleStreams)
SpecCycle == InitCycle /\ [][Next]_vars

\* -------------------------------------------- chunked bodies as inputs

\* The ways of writing n as a sum of positive numbers, in order.
RECURSIVE Compositions(_)
Compositions(n) ==
    IF n = 0 THEN {<<>>}
    ELSE UNION {{<<k>> \o c : c \in Compositions(n - k)} : k \in 1..n}
\* The payload cut into blocks of the sizes cuts.
RECURSIVE CutBlocks(_, _)
CutBlocks(payload, cuts) ==
    IF cuts = <<>> THEN <<>>
    ELSE <<Take(payload, Head(cuts))>> \o CutBlocks(Drop(payload, Head(cuts)), Tail(cuts))

\* A declaration 'name=offset'.
Declare(name, offset) == name \o <<"=">> \o ToDigits(offset, 10)
CommaSp == <<",", SP>>
\* An entry of the encapsulation table.
Entry(type, offset) == [type |-> type, offset |-> offset]
\* The messages with encapsulated sections, by shape: the start line, the
\* value of the Encapsulated header, the sections it declares in the order
\* of their offsets, the header sections' bytes, and the section kind of the
\* chunked body that follows them ("none": no body).
ShapeOf(shape) ==
    CASE shape = "reqmod" ->
           [start |-> StartLine(B_REQMOD, W_URI, B_ICAP10),
            enc |-> Declare(B_REQ_HDR, 0) \o CommaSp
                      \o Declare(B_REQ_BODY, Len(W_req_hdr_bytes)),
            table |-> <<Entry("RequestHeader", 0),
                        Entry("RequestBody", Len(W_req_hdr_bytes))>>,
            hdrs |-> W_req_hdr_bytes, body |-> "RequestBody"]
      [] shape = "reqbody" ->
           [start |-> StartLine(B_REQMOD, W_URI, B_ICAP10),
            enc |-> Declare(B_REQ_BODY, 0),
            table |-> <<Entry("RequestBody", 0)>>,
            hdrs |-> <<>>, body |-> "RequestBody"]
      [] shape = "respmod" ->
           [start |-> StartLine(B_RESPMOD, W_URI, B_ICAP10),
            enc |-> Declare(B_REQ_HDR, 0) \o CommaSp
                      \o Declare(B_RES_HDR, Len(W_req_hdr_bytes)) \o CommaSp
                      \o Declare(B_RES_BODY, Len(W_req_hdr_bytes \o W_res_hdr_bytes)),
            table |-> <<Entry("RequestHeader", 0),
                        Entry("ResponseHeader", Len(W_req_hdr_bytes)),
                        Entry("ResponseBody", Len(W_req_hdr_bytes \o W_res_hdr_bytes))>>,
            hdrs |-> W_req_hdr_bytes \o W_res_hdr_bytes, body |-> "ResponseBody"]
      [] shape = "unordered" ->
           [start |-> StartLine(B_RESPMOD, W_URI, B_ICAP10),
            enc |-> Declare(B_RES_BODY, Len(W_req_hdr_bytes \o W_res_hdr_bytes))
                      \o CommaSp \o Declare(B_REQ_HDR, 0) \o CommaSp
                      \o Declare(B_RES_HDR, Len(W_req_hdr_bytes)),
            table |-> <<Entry("RequestHeader", 0),
                        Entry("ResponseHeader", Len(W_req_hdr_bytes)),
                        Entry("ResponseBody", Len(W_req_hdr_bytes \o W_res_hdr_bytes))>>,
            hdrs |-> W_req_hdr_bytes \o W_res_hdr_bytes, body |-> "ResponseBody"]
      [] shape = "options" ->
           [start |-> StartLine(B_ICAP10, W_200, W_OK),
            enc |-> Declare(B_OPT_BODY, 0),
            table |-> <<Entry("OptionsBody", 0)>>,
            hdrs |-> <<>>, body |-> "OptionsBody"]
      [] shape = "reqhdr" ->
           [start |-> StartLine(B_REQMOD, W_URI, B_ICAP10),
            enc |-> Declare(B_REQ_HDR, 0) \o CommaSp
                      \o Declare(B_NULL_BODY, Len(W_req_hdr_bytes)),
            table |-> <<Entry("RequestHeader", 0),
                        Entry("NullBody", Len(W_req_hdr_bytes))>>,
            hdrs |-> W_req_hdr_bytes, body |-> "none"]
      [] shape = "hdrs" ->
           [start |-> StartLine(B_RESPMOD, W_URI, B_ICAP10),
            enc |-> Declare(B_REQ_HDR, 0) \o CommaSp
                      \o Declare(B_RES_HDR, Len(W_req_hdr_bytes)),
            table |-> <<Entry("RequestHeader", 0),
                        Entry("ResponseHeader", Len(W_req_hdr_bytes))>>,
            hdrs |-> W_req_hdr_bytes \o W_res_hdr_bytes, body |-> "none"]
\* The shapes with a chunked body, and those with header sections only.
Shapes == {"reqmod", "reqbody", "respmod", "unordered", "options"}
HeaderShapes == {"reqhdr", "hdrs"}

\* Payload bytes, framing bytes among them, and a payload whose size takes
\* two hexadecimal digits.
PayloadBytes == <<"a", CR, LF, "0", CR, LF, "b", "c">>
LongPayload == Fill("z", 10) \o Fill("y", 7)
LongCuts == {<<17>>, <<10, 7>>, <<16, 1>>}

\* The bound of this specification: the bytes of a payload cut in every way.
MaxPayload == 4
BodyInputs ==
    UNION {[shape : Shapes, payload : {Take(PayloadBytes, n)}, cuts : Compositions(n)]
              : n \in 0..MaxPayload}
    \cup [shape : Shapes, payload : {LongPayload}, cuts : LongCuts]
    \cup [shape : HeaderShapes, payload : {<<>>}, cuts : {<<>>}]

\* The ICAP start line and headers of d, the encapsulated region after them,
\* and the message.
BodyHead(d) ==
    ShapeOf(d.shape).start \o Header(W_Encapsulated, ShapeOf(d.shape).enc) \o CRLF
BodyRegion(d) ==
    ShapeOf(d.shape).hdrs
        \o (IF d.shape \in Shapes THEN Chunked(CutBlocks(d.payload, d.cuts)) ELSE <<>>)
BodyMessage(d) == BodyHead(d) \o BodyRegion(d)
BodyCatalogue == [d \in BodyInputs |-> BodyMessage(d)]

\* The first call brings the start line and the headers, with any number of
\* bytes of the encapsulated region; the calls after it bring any number.
BodyDeliveries ==
    IF lastResult = NoCall
    THEN {Len(BodyHead(stream[1])) + j : j \in 0..Len(BodyRegion(stream[1]))}
    ELSE 0..Len(input)

InitBody == InitOf(BodyCatalogue, {<<d>> : d \in BodyInputs})
NextBody == lastResult.tag # "Panic" /\ \E k \in BodyDeliveries : Parse(k)
SpecBody == InitBody /\ [][NextBody]_vars

\* -------------------------------------- Encapsulated values as inputs

\* The section names with their kinds, at offsets that go up by four.
DeclPool ==
    << [name |-> B_REQ_HDR, type |-> "RequestHeader", offset |-> 0],
       [name |-> B_RES_HDR, type |-> "ResponseHeader", offset |-> 4],
       [name |-> B_RES_BODY, type |-> "ResponseBody", offset |-> 8],
       [name |-> B_REQ_BODY, type |-> "RequestBody", offset |-> 12],
       [name |-> B_OPT_BODY, type |-> "OptionsBody", offset |-> 16],
       [name |-> B_NULL_BODY, type |-> "NullBody", offset |-> 20] >>
\* 'name=offset, name=offset, ...' for a sequence of declarations.
RECURSIVE DeclareAll(_)
DeclareAll(decls) ==
    IF decls = <<>> THEN <<>>
    ELSE Declare(Head(decls).name, Head(decls).offset)
         \o (IF Tail(decls) = <<>> THEN <<>> ELSE CommaSp) \o DeclareAll(Tail(decls))
EntriesOf(decls) == [i \in DOMAIN decls |-> Entry(decls[i].type, decls[i].offset)]
\* The orders of 1..n.
Orders(n) == {f \in [1..n -> 1..n] : \A i, j \in 1..n : f[i] = f[j] => i = j}

\* An input: the value of the Encapsulated header, whether it is a valid
\* value, and the table it stands for (in the order of the offsets).
EncInput(family, value, table) ==
    [family |-> family, value |-> value, ok |-> TRUE, table |-> table]
EncInvalid(family, value) ==
    [family |-> family, value |-> value, ok |-> FALSE, table |-> <<>>]

\* The bound of this specification: the declarations that are put in every order.
MaxDeclared == 3
\* The first n declarations of the pool in every order.
OrderInputs ==
    UNION {{EncInput("order", DeclareAll([i \in 1..n |-> DeclPool[f[i]]]),
                     EntriesOf(Take(DeclPool, n))) : f \in Orders(n)}
              : n \in 1..MaxDeclared}
\* Declarations with equal offsets (the table keeps them in declared order).
At(i, offset) == [DeclPool[i] EXCEPT !.offset = offset]
EqualInputs ==
    { EncInput("equal", DeclareAll(<<At(1, 0), At(2, 0)>>),
               EntriesOf(<<At(1, 0), At(2, 0)>>)),
      EncInput("equal", DeclareAll(<<At(2, 0), At(1, 0)>>),
               EntriesOf(<<At(2, 0), At(1, 0)>>)),
      EncInput("equal", DeclareAll(<<At(3, 4), At(2, 4), At(1, 0)>>),
               EntriesOf(<<At(1, 0), At(3, 4), At(2, 4)>>)) }
\* 'req-hdr=0' with and without a space before the name, before '=', after
\* '=' and after the offset, alone and as the second item of a list.
Pad(on) == IF on THEN <<SP>> ELSE <<>>
Spaced(a, b, c, d) ==
    Pad(a) \o B_REQ_HDR \o Pad(b) \o <<"=">> \o Pad(c) \o <<"0">> \o Pad(d)
SpaceInputs ==
    {EncInput("space", Spaced(a, b, c, d), <<Entry("RequestHeader", 0)>>)
        : a \in BOOLEAN, b \in BOOLEAN, c \in BOOLEAN, d \in BOOLEAN}
    \cup {EncInput("space", Declare(B_NULL_BODY, 0) \o <<",">> \o Spaced(a, b, c, d),
                    <<Entry("NullBody", 0), Entry("RequestHeader", 0)>>)
            : a \in BOOLEAN, b \in BOOLEAN, c \in BOOLEAN, d \in BOOLEAN}
\* The six names in lower case, in upper case and with a capital.
Capital(name) == [i \in DOMAIN name |-> IF i = 1 THEN UpperAlpha[IndexOf(LowerAlpha, name[1])] ELSE name[i]]
AllUpper(name) ==
    [i \in DOMAIN name |->
        IF name[i] \in Range(LowerAlpha) THEN UpperAlpha[IndexOf(LowerAlpha, name[i])]
        ELSE name[i]]
TokenInputs ==
    UNION {{EncInput("token", Declare(DeclPool[i].name, 3), <<Entry(DeclPool[i].type, 3)>>),
            EncInput("token", Declare(AllUpper(DeclPool[i].name), 3),
                     <<Entry(DeclPool[i].type, 3)>>),
            EncInput("token", Declare(Capital(DeclPool[i].name), 3),
                     <<Entry(DeclPool[i].type, 3)>>)} : i \in DOMAIN DeclPool}
\* Names that are none of the six.
OtherTokens ==
    { <<"f","o","o">>, <<"r","e","q","-","h","e","a","d","e","r">>,
      <<"r","e","q","h","d","r">>, <<"r","e","q","_","h","d","r">>,
      <<"b","o","d","y">>, B_REQ_HDR \o <<"s">>, <<>> }
OtherTokenInputs ==
    {EncInvalid("token", Declare(n, 0)) : n \in OtherTokens}
    \cup {EncInvalid("token", Declare(B_REQ_HDR, 0) \o CommaSp \o Declare(n, 4))
            : n \in OtherTokens}
\* Offsets in decimal digits, and offsets that are no decimal integer.
GoodOffsets == { <<"0">>, <<"7">>, <<"1","2">>, <<"0","0","7">>, <<"1","0","0","0">> }
BadOffsets ==
    { <<"a","b","c">>, <<>>, <<"-","1">>, <<"1",".","5">>, <<"0","x","4">>,
      <<"4","a">>, <<"4",SP,"2">> }
OffsetInputs ==
    {EncInput("offset", B_RES_HDR \o <<"=">> \o o,
              <<Entry("ResponseHeader", DigitsValue(o, 10, 0))>>) : o \in GoodOffsets}
    \cup {EncInvalid("offset", B_RES_HDR \o <<"=">> \o o) : o \in BadOffsets}
    \cup {EncInvalid("offset", B_NULL_BODY \o <<"=","0",",",SP>> \o B_RES_HDR \o <<"=">> \o o)
            : o \in BadOffsets}
    \cup {EncInvalid("offset", B_RES_HDR), EncInvalid("offset", Declare(B_RES_HDR, 0) \o <<",">>)}

EncInputs ==
    OrderInputs \cup EqualInputs \cup SpaceInputs \cup TokenInputs
        \cup OtherTokenInputs \cup OffsetInputs
\* A response whose Encapsulated header has the value of d; nothing follows
\* its headers.
EncMessage(d) ==
    StartLine(B_ICAP10, W_200, W_OK) \o Header(W_Encapsulated, d.value) \o CRLF
EncCatalogue == [d \in EncInputs |-> EncMessage(d)]

InitEncapsulated == InitOf(EncCatalogue, {<<d>> : d \in EncInputs})
SpecEncapsulated == InitEncapsulated /\ [][NextLimits]_vars

\* ------------------------------------ raw chunk-encoded ranges as inputs

\* The bound of this specification: the data bytes of a chunk.
MaxChunkData == 2
ChunkDataBytes == <<"a", "b", "c", "d">>
ChunkData(n) == Take(ChunkDataBytes, n)
ZeroChunk == <<"0">> \o CRLF
LastChunk == ZeroChunk \o CRLF

\* A body range as it is on the wire: raw, with the size token and the two
\* bytes after the chunk data that the input is about, the end of its first
\* size line (sizeEnd), the end of the bytes the input is about (mark), and
\* the data of its chunks before the zero-size chunk.
RawBody(family, raw, tok, two, sizeEnd, mark, payload) ==
    [family |-> family, raw |-> raw, tok |-> tok, two |-> two,
     sizeEnd |-> sizeEnd, mark |-> mark, payload |-> payload]

\* Size tokens: hexadecimal digits with and without blanks around them, and
\* tokens that are no sequence of hexadecimal digits.
HexSizeTokens(n) ==
    { ToDigits(n, 16), <<SP>> \o ToDigits(n, 16), ToDigits(n, 16) \o <<SP>>,
      <<"0">> \o ToDigits(n, 16), <<TAB>> \o ToDigits(n, 16) \o <<TAB>> }
OtherSizeTokens(n) ==
    { <<"x","y","z">>, <<>>, <<SP>>, <<"g">>, ToDigits(n, 16) \o <<"x">>,
      <<"0","x">> \o ToDigits(n, 16), <<"-">> \o ToDigits(n, 16),
      <<"+">> \o ToDigits(n, 16), ToDigits(n, 16) \o <<";","e">>,
      ToDigits(n, 16) \o <<SP>> \o ToDigits(n, 16) }
\* The chunk before the size line of a "size" input: none, or one byte.
ChunkBefore == {<<>>, <<"1">> \o CRLF \o <<"q">> \o CRLF}
DataBefore(pre) == IF pre = <<>> THEN <<>> ELSE <<"q">>
SizeInputs ==
    UNION {{RawBody("size", pre \o tok \o CRLF \o ChunkData(n) \o CRLF \o LastChunk,
                    tok, CRLF, Len(pre \o tok \o CRLF), Len(pre \o tok \o CRLF),
                    DataBefore(pre) \o ChunkData(n))
              : tok \in HexSizeTokens(n) \cup OtherSizeTokens(n), pre \in ChunkBefore}
           : n \in 1..MaxChunkData}
\* The two bytes after the data of a chunk: CR LF, and pairs that are not.
AfterData == {CRLF, <<"X","Y">>, <<CR,"X">>, <<LF,CR>>, <<"X",LF>>, <<CR,CR>>}
CrlfInputs ==
    UNION {{RawBody("crlf", ToDigits(n, 16) \o CRLF \o ChunkData(n) \o two \o LastChunk,
                    ToDigits(n, 16), two, Len(ToDigits(n, 16) \o CRLF),
                    Len(ToDigits(n, 16) \o CRLF) + n + 2, ChunkData(n))
              : two \in AfterData}
           : n \in 1..MaxChunkData}
\* What follows the zero-size line in the range: nothing, the final CRLF,
\* a trailer header, another chunked body, bytes that are no size line.
AfterZero ==
    { <<>>, CRLF, <<"T",COLON,"1">> \o CRLF \o CRLF,
      <<"1">> \o CRLF \o <<"z">> \o CRLF \o LastChunk, <<"x","y","z">> \o CRLF }
ZeroInputs ==
    UNION {{RawBody("zero",
                    (IF n = 0 THEN <<>> ELSE ToDigits(n, 16) \o CRLF \o ChunkData(n) \o CRLF)
                       \o ZeroChunk \o tail,
                    <<"0">>, CRLF,
                    IF n = 0 THEN Len(ZeroChunk) ELSE Len(ToDigits(n, 16) \o CRLF),
                    (IF n = 0 THEN 0 ELSE Len(ToDigits(n, 16) \o CRLF) + n + 2)
                       + Len(ZeroChunk),
                    ChunkData(n))
              : tail \in AfterZero}
           : n \in 0..MaxChunkData}
\* The body range is the last section ("last"), or a header section is
\* declared after it, at the offset where the range ends ("first").
ChunkInputs ==
    {[shape |-> sh, body |-> b] : sh \in {"last", "first"},
                                  b \in SizeInputs \cup CrlfInputs \cup ZeroInputs}
ChunkHead(d) ==
    StartLine(B_REQMOD, W_URI, B_ICAP10)
        \o Header(W_Encapsulated,
                  Declare(B_REQ_BODY, 0)
                     \o (IF d.shape = "first"
                         THEN CommaSp \o Declare(B_REQ_HDR, Len(d.body.raw)) ELSE <<>>))
        \o CRLF
ChunkRegion(d) ==
    d.body.raw \o (IF d.shape = "first" THEN W_req_hdr_bytes ELSE <<>>)
ChunkMessage(d) == ChunkHead(d) \o ChunkRegion(d)
ChunkCatalogue == [d \in ChunkInputs |-> ChunkMessage(d)]

\* The first call brings the start line and the headers, with any number of
\* bytes of the encapsulated region; the calls after it bring any number.
ChunkDeliveries ==
    IF lastResult = NoCall
    THEN {Len(ChunkHead(stream[1])) + j : j \in 0..Len(ChunkRegion(stream[1]))}
    ELSE 0..Len(input)

InitChunks == InitOf(ChunkCatalogue, {<<d>> : d \in ChunkInputs})
NextChunks == lastResult.tag # "Panic" /\ \E k \in ChunkDeliveries : Parse(k)
SpecChunks == InitChunks /\ [][NextChunks]_vars

\* ----------------------------------------------- header lines as inputs

\* Header lines by their name, the bytes after the first colon, and the
\* value these bytes have once trimmed: colons in the value, blanks around
\* it, nothing after the colon.  No two of them have the same name.
SplitCases ==
    HeaderCases \o
    << [name |-> <<"A">>, raw |-> <<COLON>>, value |-> <<COLON>>],
       [name |-> <<"B">>, raw |-> <<SP,"a",COLON,"b",COLON,"c",SP>>,
        value |-> <<"a",COLON,"b",COLON,"c">>],
       [name |-> <<"C">>, raw |-> <<>>, value |-> <<>>],
       [name |-> <<"U">>, raw |-> <<"h",COLON,"/","/","x",COLON,"8","0",TAB>>,
        value |-> <<"h",COLON,"/","/","x",COLON,"8","0">>],
       [name |-> <<"V">>, raw |-> <<SP,COLON,SP,"v">>, value |-> <<COLON,SP,"v">>] >>
\* Non-empty lines without a colon.
ColonlessLines ==
    { W_Server \o <<SP>> \o W_IcapServer, <<"x">>, <<SP>>, W_Encapsulated,
      <<"a","=","b",";","c">> }
\* n of the split cases, from case s on (around the list).
SplitBlock(s, n) == [i \in 1..n |-> SplitCases[((s + i - 2) % Len(SplitCases)) + 1]]

\* The bound of this specification: the header lines before the line the
\* input is about.
MaxLinesBefore == 2
\* A response with the header lines of `before`, then a line without a
\* colon if `bad` holds one, then the lines of `after` and the empty line.
HeaderLineInputs ==
    [before : {SplitBlock(s, n) : s \in DOMAIN SplitCases, n \in 0..MaxLinesBefore},
     bad : {<<>>} \cup {<<l>> : l \in ColonlessLines},
     after : {<<>>, SplitBlock(4, 1)}]
HeaderLinesStart == StartLine(B_ICAP10, W_200, W_OK)
HeaderLinesBytes(d) ==
    HeaderLinesStart \o BlockBytes(d.before)
        \o (IF d.bad = <<>> THEN <<>> ELSE d.bad[1] \o CRLF)
        \o BlockBytes(d.after) \o CRLF
HeaderLinesCatalogue == [d \in HeaderLineInputs |-> HeaderLinesBytes(d)]

InitHeaderLines ==
    InitOf(HeaderLinesCatalogue,
           {<<d>> : d \in {e \in HeaderLineInputs :
                              \A i \in DOMAIN e.before : e.before[i] # SplitBlock(4, 1)[1]}})
SpecHeaderLines == InitHeaderLines /\ [][NextLimits]_vars

\* --------------------------------------------- buffers for read_line

\* The bound of this specification: the bytes in the buffer.
MaxBufferLen == 5
LineBytes == {"a", CR, LF}
LineBuffers == UNION {[1..n -> LineBytes] : n \in 0..MaxBufferLen}

\* What read_line returned: Ok(Some(line)) or Ok(None).
LineResult(line) ==
    [tag |-> IF line = None THEN "NoLine" ELSE "Line", msg |-> line, err |-> None]

\* A new parser whose buffer was extended with b (as tests::test_read_line
\* does); stream keeps b, out collects the lines returned.
InitReadLine ==
    /\ stream \in {<<b>> : b \in LineBuffers}
    /\ buffer = stream[1]
    /\ state = NewParser.state
    /\ headers = NewParser.headers
    /\ encapsulated = NewParser.encapsulated
    /\ method = NewParser.method
    /\ uri = NewParser.uri
    /\ version = NewParser.version
    /\ status = NewParser.status
    /\ reason = NewParser.reason
    /\ sections = NewParser.sections
    /\ input = <<>>
    /\ lastResult = NoCall
    /\ out = <<>>
    /\ errored = FALSE
    /\ bytewise = TRUE
    /\ byteParser = ByteParser_new(<<>>)
    /\ advances = 0
\* One call parser.read_line().
ReadLineCall ==
    \E r \in {read_line(Self)} :
       /\ buffer' = r.p.buffer
       /\ lastResult' = LineResult(r.line)
       /\ out' = IF r.line = None THEN out ELSE Append(out, r.line[1])
       /\ UNCHANGED <<state, headers, encapsulated, method, uri, version, status,
                      reason, sections, stream, input, errored, bytewise,
                      byteParser, advances>>
SpecReadLine == InitReadLine /\ [][ReadLineCall]_vars

\* ------------------------------------------------ slices for a ByteParser

MaxBytes == 3
MaxPast == 2
CursorBytes == {"a", "b"}
CursorSlices == UNION {[1..n -> CursorBytes] : n \in 0..MaxBytes}

\* What a call on the ByteParser gave back: the call's name and its value, or
\* the panic it raised.
Returned(call, val) == [tag |-> call, msg |-> Some(val), err |-> None]
Indexed(call, r) ==
    IF r.err = None THEN Returned(call, r.val[1])
    ELSE [tag |-> "Panic", msg |-> None, err |-> r.err]

\* ByteParser::new(B) for a slice B, next to a fresh MessageParser that is
\* left alone.
InitByteParser ==
    /\ byteParser \in {ByteParser_new(b) : b \in CursorSlices}
    /\ advances = 0
    /\ state = NewParser.state
    /\ headers = NewParser.headers
    /\ encapsulated = NewParser.encapsulated
    /\ buffer = NewParser.buffer
    /\ method = NewParser.method
    /\ uri = NewParser.uri
    /\ version = NewParser.version
    /\ status = NewParser.status
    /\ reason = NewParser.reason
    /\ sections = NewParser.sections
    /\ stream = <<>>
    /\ input = <<>>
    /\ lastResult = NoCall
    /\ out = <<>>
    /\ errored = FALSE
    /\ bytewise = TRUE

\* A panic ends the use of the ByteParser (the caller's task unwinds); the
\* MessageParser is not called.
ByteParserOnly ==
    /\ lastResult.tag # "Panic"
    /\ UNCHANGED <<parserVars, stream, input, out, errored, bytewise>>

\* One call of each method of the ByteParser.
AdvanceCall ==
    /\ ByteParserOnly
    /\ byteParser.pos < Len(byteParser.bytes) + MaxPast
    /\ byteParser' = ByteParser_advance(byteParser)
    /\ advances' = advances + 1
    /\ lastResult' = Returned("advance", <<>>)
PeekCall ==
    /\ ByteParserOnly
    /\ lastResult' = Returned("peek", ByteParser_peek(byteParser))
    /\ UNCHANGED <<byteParser, advances>>
SliceCall ==
    /\ ByteParserOnly
    /\ lastResult' = Indexed("slice", ByteParser_slice(byteParser))
    /\ UNCHANGED <<byteParser, advances>>
RemainingCall ==
    /\ ByteParserOnly
    /\ lastResult' = Indexed("remaining", ByteParser_remaining(byteParser))
    /\ UNCHANGED <<byteParser, advances>>
PositionCall ==
    /\ ByteParserOnly
    /\ lastResult' = Returned("position", ByteParser_position(byteParser))
    /\ UNCHANGED <<byteParser, advances>>

NextByteParser ==
    \/ AdvanceCall
    \/ PeekCall
    \/ SliceCall
    \/ RemainingCall
    \/ PositionCall
SpecByteParser == InitByteParser /\ [][NextByteParser]_vars

\* ============================================================== the claims

\* The bytes the parse call of a step was given.
PushedNow == Take(input, Len(input) - Len(input'))
\* The bytes that call finds in the receive buffer once it has appended them.
Avail == buffer \o PushedNow

WellFormedStream(ids) == \A i \in DOMAIN ids : ids[i] \in WellFormedIds
\* What one parse call with the whole stream returns on a fresh parser.
OneShot(ids) == parse(NewParser, StreamBytes(ids)).res
OneShotMessages(ids) ==
    IF OneShot(ids).tag = "Some" THEN <<OneShot(ids).msg[1]>> ELSE <<>>

\* The terminated lines of b, each without its LF and without one CR before it.
StripCR(l) == IF l # <<>> /\ l[Len(l)] = CR THEN Take(l, Len(l) - 1) ELSE l
TerminatedLines(b) ==
    LET pieces == Split(b, LF)
    IN [i \in 1..(Len(pieces) - 1) |-> StripCR(pieces[i])]
\* The name of a header line, in lower case (the line itself without a colon).
LineName(l) ==
    LET c == FirstIndex(l, COLON) IN LowerStr(IF c = 0 THEN l ELSE Take(l, c - 1))
IsEncapsulatedLine(l) == LineName(l) = B_ENCAPSULATED
WellFormedHeaderLine(l) ==
    LET c == FirstIndex(l, COLON)
    IN /\ c > 1
       /\ c - 1 <= MAX_HEADER_NAME_LEN
       /\ Len(l) - c <= MAX_HEADER_VALUE_LEN
       /\ HeaderNameOk(Take(l, c - 1))
       /\ HeaderValueOk(Trim(Drop(l, c)))
       /\ Utf8Ok(l)
\* lines[from..j-1] are header lines, none of them empty, and lines[j] is the
\* empty line that ends the block (0: the block does not end in lines).
RECURSIVE BlockEnd(_, _)
BlockEnd(lines, from) ==
    IF from > Len(lines) THEN 0
    ELSE IF lines[from] = <<>> THEN from
    ELSE BlockEnd(lines, from + 1)
\* The header block lines[from..j] carries no Encapsulated header.
BlockWithoutEncapsulated(lines, from, j) ==
    j > 0 /\ \A i \in from..(j - 1) : ~IsEncapsulatedLine(lines[i])
\* Its lines are well-formed and fit the limits.
BlockWellFormed(lines, from, j) ==
    /\ \A i \in from..(j - 1) : WellFormedHeaderLine(lines[i])
    /\ Cardinality(DOMAIN headers) + j - from <= MAX_HEADERS
RequestLine(l, methods) ==
    LET t == Split(l, SP)
    IN Len(t) = 3 /\ t[1] \in methods /\ Utf8Ok(t[2]) /\ t[3] \in {B_ICAP10, B_ICAP11}
ResponseLine(l) ==
    LET t == Split(l, SP)
    IN /\ Len(t) = 3 /\ t[1] \in {B_ICAP10, B_ICAP11}
       /\ Len(t[2]) = 3 /\ t[2][1] \in {"1", "2", "3", "4", "5"}
       /\ t[2][2] \in Range(DecDigits) /\ t[2][3] \in Range(DecDigits)
       /\ Utf8Ok(t[3])
MissingEncapsulated == Some(Error("Protocol", "Missing encapsulated header"))

\* C1: for every well-formed stream and every partitioning of it, the pieces
\* pushed in order to a fresh parser yield the same messages as one parse
\* call with the whole stream.
C1_PartitionIndependent ==
    (WellFormedStream(stream) /\ input = <<>>) => out = OneShotMessages(stream)

\* C2: for a REQMOD or RESPMOD request that carries an Encapsulated header, the
\* terminating empty line is accepted (no missing-encapsulated error) also when
\* the Encapsulated line was consumed by an earlier parse call.
C2_EncapsulatedSeenAcrossCalls ==
    [][(/\ state = "Headers"
        /\ method \in {Some("ReqMod"), Some("RespMod")}
        /\ status = None
        /\ HeaderGet(headers, W_Encapsulated) # None
        /\ TerminatedLines(Avail) # <<>>
        /\ TerminatedLines(Avail)[1] = <<>>)
       => lastResult'.err # MissingEncapsulated]_vars

\* The single-message streams that are a response with null-body=0.
NullBodyResponses == {<<3>>, <<6>>}

\* C3: a response with 'Encapsulated: null-body=0' fed one byte per call
\* returns Ok(None) on every call but the last, and on the last byte exactly
\* one Ok(Some(Response)), the message of the one-shot feed.
C3_BytewiseNullBody ==
    (stream \in NullBodyResponses /\ bytewise) =>
        IF input # <<>>
        THEN lastResult.tag \in {"NoCall", "None"} /\ out = <<>>
        ELSE /\ lastResult.tag = "Some"
             /\ lastResult.msg[1].tag = "Response"
             /\ lastResult = OneShot(stream)
             /\ out = <<lastResult.msg[1]>>
C3_Witness ==
    /\ stream = <<6>> /\ bytewise /\ input = <<>>
    /\ lastResult.tag = "Some" /\ lastResult.msg[1].status = Some(200)
    /\ lastResult.msg[1].encapsulated.variant = "NullBody"

\* C4: immediately after a parse call that returns Ok(Some(message)) the state
\* is StartLine and every accumulator is cleared.
C4_AllAccumulatorsCleared ==
    lastResult.tag = "Some" =>
        /\ state = "StartLine"
        /\ headers = EmptyMap /\ encapsulated = EmptyMap /\ sections = <<>>
        /\ method = None /\ uri = None /\ version = None
        /\ status = None /\ reason = None

\* C5: after a first message has been returned, a second well-formed message
\* pushed to the same instance yields what it yields on a fresh parser.
C5_SecondMessageAsOnFresh ==
    [][(/\ Len(stream) = 2 /\ WellFormedStream(stream)
        /\ Len(out) = 1 /\ ~errored /\ state = "StartLine" /\ buffer = <<>>
        /\ input = Catalogue[stream[2]]
        /\ input' = <<>>)
       => lastResult' = parse(NewParser, Catalogue[stream[2]]).res]_vars

\* The well-formed messages without encapsulated sections.
NoSectionIds == {1, 2}

\* C6: when a parse call completes a message, the buffer is drained only up
\* to the last byte of that message: the bytes of a following message that
\* arrived in the same call remain in the buffer.
C6_FollowingBytesRetained ==
    (/\ Len(stream) = 2 /\ \A i \in 1..2 : stream[i] \in NoSectionIds
     /\ lastResult.tag = "Some" /\ Len(out) = 1)
    => buffer = SubSeq(StreamBytes(stream), Len(Catalogue[stream[1]]) + 1,
                       Len(StreamBytes(stream)) - Len(input))

\* C7: once a parse call has returned Err, no later parse call on the same
\* instance returns Ok(Some(message)).
C7_ErrorIsFatal == [][errored => lastResult'.tag # "Some"]_vars

\* The LF at position i of b ends an empty line.
EmptyLineAt(b, i) ==
    \/ i = 1 \/ b[i - 1] = LF
    \/ (b[i - 1] = CR /\ (i = 2 \/ b[i - 2] = LF))
\* The first n bytes of b are complete, terminated lines, and none of them
\* but the last is empty: nothing after the end of a header block is in them.
OnlyProcessedLines(b, n) ==
    /\ n > 0 => b[n] = LF
    /\ \A i \in 1..(n - 1) : b[i] = LF => ~EmptyLineAt(b, i)

\* C8: when parse returns Ok(None), the only bytes removed from the front of
\* the receive buffer are complete, terminated lines that were parsed; the
\* bytes of an unterminated line and of the encapsulated region stay in the
\* buffer, in arrival order, the newly pushed bytes after the older ones.
C8_OkNoneConsumesOnlyLines ==
    [][lastResult'.tag = "None" =>
        \E n \in 0..Len(Avail) :
            /\ buffer' = Drop(Avail, n)
            /\ OnlyProcessedLines(Avail, n)
            /\ state \notin {"StartLine", "Headers"} => n = 0]_vars
C8_Witness ==
    /\ lastResult.tag = "None" /\ state = "Body"
    /\ sections # <<>> /\ buffer # <<>> /\ input # <<>>

\* Where the header block of the message a step is about starts in the
\* terminated lines of Avail: 2 after a start line, 1 in state Headers.
BlockStart == IF state = "StartLine" THEN 2 ELSE 1
\* The message a step is about is a REQMOD/RESPMOD request whose header block
\* lines[BlockStart..j] ends, in this call, without an Encapsulated header.
C9_Case(lines, j) ==
    /\ \/ /\ state = "StartLine"
          /\ lines # <<>>
          /\ RequestLine(lines[1], {B_REQMOD, B_RESPMOD})
       \/ /\ state = "Headers"
          /\ method \in {Some("ReqMod"), Some("RespMod")}
          /\ HeaderGet(headers, W_Encapsulated) = None
    /\ BlockWithoutEncapsulated(lines, BlockStart, j)
\* A returned REQMOD/RESPMOD request without an Encapsulated header.
C9_Forbidden(m) ==
    /\ m.tag = "Request"
    /\ m.method \in {Some("ReqMod"), Some("RespMod")}
    /\ HeaderGet(m.headers, W_Encapsulated) = None

Fresh == out = <<>> /\ ~errored /\ lastResult.tag \in {"NoCall", "None"}
\* The message a step is about is an OPTIONS request or a response whose
\* well-formed header block ends, in this call, without Encapsulated.
C10_Case(lines, j) ==
    /\ \/ /\ state = "StartLine"
          /\ lines # <<>>
          /\ RequestLine(lines[1], {B_OPTIONS}) \/ ResponseLine(lines[1])
       \/ /\ state = "Headers"
          /\ method = Some("Options") \/ status # None
          /\ HeaderGet(headers, W_Encapsulated) = None
    /\ BlockWithoutEncapsulated(lines, BlockStart, j)
    /\ BlockWellFormed(lines, BlockStart, j)

\* C10: on a fresh parser an OPTIONS request, and any response, whose header
\* block ends without an Encapsulated header is returned as a message by the
\* call that delivers the terminating empty line, with variant NullBody.
C10_EncapsulatedOptional ==
    [][(Fresh /\ state \in {"StartLine", "Headers"}) =>
        \E lines \in {TerminatedLines(Avail)} :
        \E j \in {BlockEnd(lines, BlockStart)} :
          C10_Case(lines, j) =>
            /\ lastResult'.tag = "Some"
            /\ lastResult'.msg[1].encapsulated.variant = "NullBody"
            /\ lastResult'.msg[1].tag = (IF status' # None THEN "Response" ELSE "Request")
            /\ HeaderGet(lastResult'.msg[1].headers, W_Encapsulated) = None
            /\ out' = <<lastResult'.msg[1]>>]_vars
C10_Witness ==
    /\ stream[1] = 1 /\ Len(out) = 1 /\ ~errored /\ bytewise
    /\ lastResult.tag = "Some"
    /\ lastResult.msg[1].method = Some("Options")
    /\ HeaderGet(lastResult.msg[1].headers, W_Encapsulated) = None
    /\ lastResult.msg[1].encapsulated.variant = "NullBody"

\* ------------------------------------------------- claims on start lines

\* The specification's classification of a start line of three tokens: a
\* response when token 0 begins with "ICAP/", a request otherwise.
ThreeTokens(l) == Len(Split(l, SP)) = 3
IsResponseStartLine(l) == ThreeTokens(l) /\ StartsWith(Split(l, SP)[1], B_ICAP)
IsRequestStartLine(l) == ThreeTokens(l) /\ ~StartsWith(Split(l, SP)[1], B_ICAP)
\* The call of this step returns an error of this kind.
FailsWith(kind) == lastResult'.tag = "Err" /\ lastResult'.err[1].kind = kind
\* The call of this step takes the method m from the start line.
MethodTaken(m) ==
    /\ method' = Some(m)
    /\ ~FailsWith("InvalidMethod")
    /\ lastResult'.tag = "Some" =>
          lastResult'.msg[1].tag = "Request" /\ lastResult'.msg[1].method = Some(m)

\* C11: a request start line whose first token is not exactly REQMOD, RESPMOD
\* or OPTIONS makes parse return an invalid-method error; the three tokens
\* map to ReqMod, RespMod and Options.
C11_MethodTokens ==
    [][state = "StartLine" =>
        \E lines \in {TerminatedLines(Avail)} :
          (lines # <<>> /\ IsRequestStartLine(lines[1])) =>
            \E tok \in {Split(lines[1], SP)[1]} :
              /\ tok \notin {B_REQMOD, B_RESPMOD, B_OPTIONS} => FailsWith("InvalidMethod")
              /\ tok = B_REQMOD => MethodTaken("ReqMod")
              /\ tok = B_RESPMOD => MethodTaken("RespMod")
              /\ tok = B_OPTIONS => MethodTaken("Options")]_vars
C11_Witness ==
    /\ input = <<>>
    /\ BytesOf(StartLineCatalogue, stream)
          = StartLine(LowerStr(B_OPTIONS), W_URI, B_ICAP10) \o CRLF
    /\ lastResult.err = Some(Error("InvalidMethod", "Invalid method"))
    /\ method = None

\* The version token of a start line begins with "ICAP/" and is neither
\* ICAP/1.0 nor ICAP/1.1: token 0 of a response line, token 2 of a request
\* line whose method and URI are accepted.
BadIcapVersion(tok) == StartsWith(tok, B_ICAP) /\ tok \notin {B_ICAP10, B_ICAP11}
HasBadIcapVersion(l) ==
    LET t == Split(l, SP)
    IN /\ Len(t) = 3
       /\ \/ BadIcapVersion(t[1])
          \/ /\ t[1] \in {B_REQMOD, B_RESPMOD, B_OPTIONS}
             /\ Utf8Ok(t[2])
             /\ BadIcapVersion(t[3])

StatusInRange(tok) ==
    /\ tok # <<>>
    /\ \A i \in DOMAIN tok : tok[i] \in Range(DecDigits)
    /\ DigitsValue(tok, 10, 0) \in 100..599
\* A response start line with an accepted version whose status token is not.
HasBadStatus(l) ==
    LET t == Split(l, SP)
    IN Len(t) = 3 /\ t[1] \in {B_ICAP10, B_ICAP11} /\ ~StatusInRange(t[2])

C14_ThreeTokensOrError ==
    [][state = "StartLine" =>
        \E lines \in {TerminatedLines(Avail)} :
          (lines # <<>> /\ lines[1] # <<>> /\ ~ThreeTokens(lines[1])) =>
            /\ lastResult'.tag = "Err"
            /\ out' = out
            /\ state' = "StartLine"]_vars
C14_Witness ==
    /\ BytesOf(StartLineCatalogue, stream) = OddLines[4] \o CRLF \o CRLF
    /\ Len(Split(OddLines[4], SP)) = 4
    /\ lastResult.tag = "Err" /\ out = <<>> /\ status = None
    /\ Len(input) = Len(CRLF)

\* ------------------------------------------------ claims on the size limits

\* A header line with a colon, its name and the bytes after its colon.
HasColon(l) == FirstIndex(l, COLON) > 0
NameOfLine(l) == Take(l, FirstIndex(l, COLON) - 1)
RawValueOfLine(l) == Drop(l, FirstIndex(l, COLON))
TooLarge == Some(Error("Protocol", "Message too large"))
\* The first n terminated lines of b (fewer when b has fewer).
RECURSIVE FirstLines(_, _)
FirstLines(b, n) ==
    LET i == FirstIndex(b, LF)
    IN IF n = 0 \/ i = 0 THEN <<>>
       ELSE <<StripCR(Take(b, i - 1))>> \o FirstLines(Drop(b, i), n - 1)
\* The first header line the call of a step reads (None: it reads none):
\* the first terminated line in state Headers, the one after an accepted
\* start line in state StartLine.
FirstHeaderLine(lines) ==
    IF state = "Headers" /\ lines # <<>> /\ HasColon(lines[1]) THEN Some(lines[1])
    ELSE IF /\ state = "StartLine" /\ Len(lines) >= 2
            /\ \/ RequestLine(lines[1], {B_REQMOD, B_RESPMOD, B_OPTIONS})
               \/ ResponseLine(lines[1])
            /\ HasColon(lines[2])
         THEN Some(lines[2])
    ELSE None
\* The call of this step takes the header called name: it is among the
\* headers of the message the call returns or, without one, of the parser.
HeaderTaken(name) ==
    IF lastResult'.tag = "Some"
    THEN HeaderGet(lastResult'.msg[1].headers, name) # None
    ELSE HeaderGet(headers', name) # None
\* Apart from the length of its name, line l is a header line the parser in
\* its current state has no reason to refuse.
NothingElseWrong(l) ==
    /\ HeaderNameOk(NameOfLine(l))
    /\ Len(RawValueOfLine(l)) <= 4096
    /\ Utf8Ok(l)
    /\ Cardinality(DOMAIN headers) < 100
    /\ HeaderGet(headers, NameOfLine(l)) = None

\* C15: a header line whose name is exactly 100 bytes long is accepted, and a
\* header line whose name is 101 bytes or longer makes parse return a
\* message-too-large error.
C15_NameLimit ==
    [][\E l \in {FirstHeaderLine(FirstLines(Avail, 2))} :
          l # None =>
            \E name \in {NameOfLine(l[1])} :
              /\ Len(name) >= 101 => lastResult'.err = TooLarge
              /\ (Len(name) = 100 /\ NothingElseWrong(l[1])) =>
                    lastResult'.err # TooLarge /\ HeaderTaken(name)]_vars
C15_Witness ==
    /\ BytesOf(LimitCatalogue, stream) = OptionsWith(Header(Fill("a", 100), W_x))
    /\ input = <<>> /\ lastResult.tag = "Some"
    /\ HeaderGet(lastResult.msg[1].headers, Fill("a", 100)) = Some(W_x)

\* The value of header line l: the bytes after the colon, trimmed.
ValueOfLine(l) == Trim(RawValueOfLine(l))
\* Apart from the length of its value, line l is a header line the parser in
\* its current state has no reason to refuse.
NothingElseWrongWithValue(l) ==
    /\ HeaderNameOk(NameOfLine(l)) /\ Len(NameOfLine(l)) <= 100
    /\ Utf8Ok(l)
    /\ Cardinality(DOMAIN headers) < 100
    /\ HeaderGet(headers, NameOfLine(l)) = None

\* C16: a header whose value, the post-colon bytes trimmed of leading and
\* trailing whitespace, is exactly 4096 bytes long is accepted, also when
\* written 'Name: value' with a space after the colon; a value of 4097 bytes
\* is rejected as message-too-large.
C16_ValueLimit ==
    [][\E l \in {FirstHeaderLine(FirstLines(Avail, 2))} :
          l # None =>
            \E value \in {ValueOfLine(l[1])} :
              /\ Len(value) >= 4097 => lastResult'.err = TooLarge
              /\ (Len(value) = 4096 /\ NothingElseWrongWithValue(l[1])) =>
                    lastResult'.err # TooLarge /\ HeaderTaken(NameOfLine(l[1]))]_vars

\* The lines of a message b by the positions of their LFs: where the line
\* that ends at position i starts, and the line itself.
LineStart(b, i) ==
    1 + (CHOOSE j \in 0..(i - 1) :
            (j = 0 \/ b[j] = LF) /\ \A k \in (j + 1)..(i - 1) : b[k] # LF)
LineEndingAt(b, i) == StripCR(SubSeq(b, LineStart(b, i), i - 1))
\* The LF of the empty line that ends the header block of b (0: none).
HeaderBlockEnd(b) ==
    LET E == {i \in DOMAIN b : b[i] = LF /\ LineEndingAt(b, i) = <<>>}
    IN IF E = {} THEN 0 ELSE CHOOSE i \in E : \A j \in E : i <= j
\* The LFs of the header lines of b: after the start line, before the empty line.
HeaderLineEnds(b) ==
    UNION {{i \in (FirstIndex(b, LF) + 1)..(e - 1) : b[i] = LF} : e \in {HeaderBlockEnd(b)}}
\* The LF of the n-th of the header lines that end at the positions ends.
HeaderLineEnd(ends, n) ==
    CHOOSE i \in ends : Cardinality({j \in ends : j < i}) = n - 1
\* b is an OPTIONS request whose header lines are, each one, acceptable.
OptionsWithGoodLines(b) ==
    /\ HeaderBlockEnd(b) > 0
    /\ RequestLine(LineEndingAt(b, FirstIndex(b, LF)), {B_OPTIONS})
    /\ Len(b) - HeaderBlockEnd(b) = 0
    /\ \A i \in HeaderLineEnds(b) :
          \E l \in {LineEndingAt(b, i)} :
             /\ HasColon(l) /\ Utf8Ok(l)
             /\ HeaderNameOk(NameOfLine(l)) /\ Len(NameOfLine(l)) <= 100
             /\ Len(RawValueOfLine(l)) <= 4096

\* C17: a message with exactly 100 header lines is accepted, and the 101st
\* header line of one message makes parse return a message-too-large error,
\* wherever the push boundaries fall between the header lines: once the
\* 101st line has been pushed a call has failed, and no message is returned.
C17_HeaderCountLimit ==
    \E b \in {BytesOf(LimitCatalogue, stream)} :
      OptionsWithGoodLines(b) =>
        \E ends \in {HeaderLineEnds(b)} :
          /\ (Cardinality(ends) = 100 /\ input = <<>>) => Len(out) = 1 /\ ~errored
          /\ Cardinality(ends) >= 101 =>
               /\ out = <<>>
               /\ Len(b) - Len(input) >= HeaderLineEnd(ends, 101) =>
                    errored /\ (lastResult.tag = "Err" => lastResult.err = TooLarge)

\* C18: the line reader fails once the unterminated data at the front of the
\* buffer exceeds the line cap: while the parser waits for the end of a line
\* no parse call returns Ok(None) with more than LineCap bytes in the buffer.
C18_LineCapped ==
    (/\ state \in {"StartLine", "Headers"}
     /\ lastResult.tag = "None"
     /\ FirstIndex(buffer, LF) = 0)
    => Len(buffer) <= LineCap

\* ------------------------------------------- claims on the built message

\* The section names an Encapsulated value declares: the text of each item
\* before its '=', trimmed, in lower case.
DeclaredNames(value) ==
    {LowerStr(Trim(Split(item, "=")[1])) : item \in Range(Split(value, ","))}
\* The names the headers of message m declare (none without the header).
DeclaredBy(m) ==
    IF HeaderGet(m.headers, W_Encapsulated) = None THEN {}
    ELSE DeclaredNames(HeaderGet(m.headers, W_Encapsulated)[1])
\* The variant the priority of the claim gives to a set of declared names.
VariantByPriority(names) ==
    LET req == names \cap {B_REQ_HDR, B_REQ_BODY} # {}
        res == names \cap {B_RES_HDR, B_RES_BODY} # {}
    IN IF B_NULL_BODY \in names THEN "NullBody"
       ELSE IF B_OPT_BODY \in names THEN "Options"
       ELSE IF req /\ res THEN "RequestResponse"
       ELSE IF req THEN "RequestOnly"
       ELSE IF res THEN "ResponseOnly"
       ELSE "NullBody"

\* C19: the encapsulation variant of a returned message follows from the set
\* of section kinds its Encapsulated header declares, by the priority
\* NullBody, Options, RequestResponse, RequestOnly, ResponseOnly, and
\* NullBody again when no section is declared.
C19_VariantByPriority ==
    lastResult.tag = "Some" =>
        lastResult.msg[1].encapsulated.variant
            = VariantByPriority(DeclaredBy(lastResult.msg[1]))
C19_Witness ==
    /\ lastResult.tag = "Some"
    /\ DeclaredBy(lastResult.msg[1]) = {B_NULL_BODY, B_OPT_BODY, B_REQ_HDR}
    /\ lastResult.msg[1].encapsulated.variant = "NullBody"

IsResponseOf(m, d) ==
    /\ m.tag = "Response"
    /\ m.version = Some(d.version)
    /\ m.status = Some(d.status.val)
    /\ m.reason = Some(d.reason)
    /\ \A i \in DOMAIN d.block :
          HeaderGet(m.headers, d.block[i].name) = Some(d.block[i].value)

\* C21: a well-formed response start line 'VERSION STATUS REASON' produces a
\* Response message whose version is the parsed version, whose status is the
\* decimal value of token 1, whose reason is token 2 verbatim, and whose
\* headers contain every header line of the block with its trimmed value:
\* once the response is pushed to a fresh parser, in one call or in pieces,
\* it has been returned so, and before that nothing has been returned.
C21_ResponseParsed ==
    /\ ~errored
    /\ input # <<>> => out = <<>>
    /\ input = <<>> => Len(out) = 1 /\ IsResponseOf(out[1], stream[1])
C21_Witness ==
    /\ input = <<>> /\ Len(out) = 1 /\ ~bytewise /\ lastResult.tag = "Some"
    /\ out[1].version = Some("V1_0") /\ out[1].status = Some(599)
    /\ out[1].reason = Some(<<"N","o","t",TAB,"F","n","d">>)
    /\ Len(stream[1].block) = 3
    /\ HeaderGet(out[1].headers, <<"X","-","P","A","D">>) = Some(<<"a",SP,SP,"b">>)
    /\ out[1].encapsulated.variant = "NullBody"

\* u8::to_ascii_uppercase, and a name in upper case.
ToUpper(c) == IF c \in Range(LowerAlpha) THEN UpperAlpha[IndexOf(LowerAlpha, c)] ELSE c
UpperStr(s) == [i \in DOMAIN s |-> ToUpper(s[i])]
\* The names looked up: those of the header cases, as written and in lower
\* case, whether the message carries them or not.
LookupNames ==
    {HeaderCases[i].name : i \in DOMAIN HeaderCases}
        \cup {LowerStr(HeaderCases[i].name) : i \in DOMAIN HeaderCases}

\* C22: header lookup on a returned message is case-insensitive: the names
\* are stored in ASCII lower case, looking up a name and looking up the
\* upper-cased name return the same value, and a header the message was sent
\* with is found, with its value, under its upper-cased name.
C22_LookupIgnoresCase ==
    lastResult.tag = "Some" =>
        \E M \in {lastResult.msg[1]} :
          /\ \A k \in DOMAIN M.headers : k = LowerStr(k)
          /\ \A N \in LookupNames :
                HeaderGet(M.headers, N) = HeaderGet(M.headers, UpperStr(N))
          /\ \A i \in DOMAIN stream[1].block :
                HeaderGet(M.headers, UpperStr(stream[1].block[i].name))
                    = Some(stream[1].block[i].value)
C22_Witness ==
    /\ lastResult.tag = "Some"
    /\ \E i \in DOMAIN stream[1].block : stream[1].block[i].name = W_Server
    /\ HeaderGet(lastResult.msg[1].headers, W_Server) = Some(W_IcapServer)
    /\ HeaderGet(lastResult.msg[1].headers, UpperStr(W_Server)) = Some(W_IcapServer)
    /\ HeaderGet(lastResult.msg[1].headers, W_Host) = None
    /\ HeaderGet(lastResult.msg[1].headers, UpperStr(W_Host)) = None

\* ------------------------------------------------ claims on the states

\* The states the parser goes through in one parse call, from the parser p
\* the call starts with (the pushed bytes already in its buffer): the state
\* before each step of the driver loop, the state the step leaves, and the
\* state the loop assigns.
RECURSIVE StatesOfCall(_)
StatesOfCall(p) ==
    IF p.state = "Complete"
    THEN IF build_message(p).err # None THEN <<p.state>>
         ELSE <<p.state, ResetAfterMessage(p).state>>
    ELSE LET r == StateStep(p)
         IN IF r.err # None \/ ~r.ok THEN <<p.state, r.p.state>>
            ELSE <<p.state, r.p.state>>
                 \o StatesOfCall([r.p EXCEPT !.state = NextState(p.state)])
\* The cycle of the states.
CycleNext(s) ==
    CASE s = "StartLine" -> "Headers"
      [] s = "Headers" -> "EncapsulatedHeader"
      [] s = "EncapsulatedHeader" -> "Body"
      [] s = "Body" -> "Complete"
      [] s = "Complete" -> "StartLine"
AlongCycle(t) ==
    \A i \in 1..(Len(t) - 1) : t[i + 1] = t[i] \/ t[i + 1] = CycleNext(t[i])
\* The bytes b are a well-formed start line and then header lines, all of
\* them terminated and none of them empty.
StartLineAndHeaders(b) ==
    /\ b # <<>> /\ b[Len(b)] = LF
    /\ \E lines \in {TerminatedLines(b)} :
          /\ \/ RequestLine(lines[1], {B_REQMOD, B_RESPMOD, B_OPTIONS})
             \/ ResponseLine(lines[1])
          /\ \A i \in 2..Len(lines) : lines[i] # <<>> /\ WellFormedHeaderLine(lines[i])

\* C23: a fresh parser starts at StartLine; within a parse call the state
\* only moves along the cycle StartLine, Headers, EncapsulatedHeader, Body,
\* Complete, StartLine; a call that delivers only a complete start line, or
\* a start line and header lines without the terminating empty line,
\* returns Ok(None) and leaves the state at Headers; and after a call that
\* returns Ok the state is StartLine, Headers or Body.
C23_StateCycle ==
    /\ state = "StartLine"
    /\ [][/\ \E t \in {StatesOfCall([Self EXCEPT !.buffer = Avail])} :
               t[1] = state /\ t[Len(t)] = state' /\ AlongCycle(t)
          /\ (state = "StartLine" /\ buffer = <<>> /\ StartLineAndHeaders(PushedNow))
                => lastResult'.tag = "None" /\ state' = "Headers"
          /\ lastResult'.tag \in {"None", "Some"}
                => state' \in {"StartLine", "Headers", "Body"}]_vars
C23_Witness ==
    /\ state = "Headers" /\ lastResult.tag = "None" /\ Len(out) = 1
    /\ buffer = <<>> /\ Cardinality(DOMAIN headers) = 1
    /\ input = CRLF

\* --------------------------------------------------- claims on bodies

\* The bytes of the body's range that the calls so far, the call of a step
\* included, have pushed.
BodyBytesPushed ==
    Len(BodyMessage(stream[1])) - Len(input')
        - Len(BodyHead(stream[1])) - Len(ShapeOf(stream[1].shape).hdrs)

\* C24: a body section is complete only when a terminating zero-size chunk
\* has been seen: while bytes of its range are available and the size line
\* '0' CRLF that ends the body has not been pushed whole (the available
\* bytes end in a size line, in chunk data, before a chunk's CRLF, or right
\* after a complete chunk), parse returns Ok(None) and does not return the
\* message.
C24_ZeroChunkRequired ==
    [][(stream[1].shape \in Shapes /\ BodyBytesPushed >= 1 /\ Len(input') > Len(CRLF))
          => lastResult'.tag = "None" /\ out' = <<>>]_vars

\* The payload message m carries for the body section of the given kind.
BodyOf(m, kind) ==
    CASE kind = "RequestBody" -> m.encapsulated.req_body
      [] kind = "ResponseBody" -> m.encapsulated.res_body
      [] kind = "OptionsBody" -> m.encapsulated.opt_body
\* The call of a step is given, on a fresh parser, a whole message that
\* has a body section.
WholeMessageNow == stream[1].shape \in Shapes /\ lastResult = NoCall /\ input' = <<>>

\* C25: sections of kind ReqBody, ResBody and OptBody are all chunk-decoded:
\* the payload of the body section of a message given in one call, an
\* opt-body section too, is its chunk data blocks put end to end, not the
\* chunk-encoded bytes of its range.
C25_AllBodiesDecoded ==
    [][WholeMessageNow =>
         /\ lastResult'.tag = "Some"
         /\ BodyOf(lastResult'.msg[1], ShapeOf(stream[1].shape).body)
               = Some(stream[1].payload)]_vars

\* The inputs that carry the payload of d in a section of the same kind,
\* whatever the chunks it is divided into.
SamePayload(d) == {e \in BodyInputs : e.shape = d.shape /\ e.payload = d.payload}
\* What a fresh parser returns for the message of e given in one call.
Whole(e) == parse(NewParser, BodyMessage(e)).res

\* C26: the decoded payload of a body section is its non-zero chunks' data
\* blocks put end to end, in order, and so it is the same for every way of
\* dividing the same payload into chunks: a message given in one call is
\* returned with the blocks of its body joined, as is the message of every
\* other division of that payload.
C26_ChunkingIndependent ==
    [][WholeMessageNow =>
         \E kind \in {ShapeOf(stream[1].shape).body} :
           /\ lastResult'.tag = "Some"
           /\ BodyOf(lastResult'.msg[1], kind)
                 = Some(Joined(CutBlocks(stream[1].payload, stream[1].cuts)))
           /\ \A e \in SamePayload(stream[1]) :
                 /\ Whole(e).tag = "Some"
                 /\ BodyOf(Whole(e).msg[1], kind) = BodyOf(lastResult'.msg[1], kind)]_vars

\* The parser as the call that starts with parser p has it when it reaches
\* State::Complete, before the message is built (None: it does not).
RECURSIVE AtComplete(_)
AtComplete(p) ==
    IF p.state = "Complete" THEN Some(p)
    ELSE LET r == StateStep(p)
         IN IF r.err # None \/ ~r.ok THEN None
            ELSE AtComplete([r.p EXCEPT !.state = NextState(p.state)])
\* The bytes of the encapsulated region of the stream's message that the
\* calls so far, the call of a step included, have pushed.
RegionPushed ==
    SubSeq(BodyMessage(stream[1]), Len(BodyHead(stream[1])) + 1,
           Len(BodyMessage(stream[1])) - Len(input'))
\* The range of entry i of table t in a region: [O_i, O_{i+1}), and
\* [O_i, end) for the last entry.
RangeOf(t, i, region) ==
    SubSeq(region, t[i].offset + 1, IF i < Len(t) THEN t[i + 1].offset ELSE Len(region))
HeaderKinds == {"RequestHeader", "ResponseHeader"}

\* C27: the range of entry i of the encapsulation table is [O_i, O_{i+1}),
\* and [O_i, end of buffer) for the last entry, the offsets counted from the
\* first byte after the empty line that ends the ICAP headers; when a
\* message is returned the payload stored for each req-hdr and res-hdr
\* section is exactly the bytes of its range, and no message is returned
\* while fewer bytes of the region than a declared offset are in the buffer.
C27_SectionRanges ==
    [][lastResult'.tag = "Some" =>
         \E q \in {AtComplete([Self EXCEPT !.buffer = Avail])} :
         \E t \in {ShapeOf(stream[1].shape).table} :
           /\ q # None
           /\ q[1].buffer = RegionPushed
           /\ \A i \in DOMAIN t :
                 /\ Len(RegionPushed) >= t[i].offset
                 /\ t[i].type \in HeaderKinds =>
                       /\ t[i].type \in DOMAIN q[1].encapsulated
                       /\ q[1].encapsulated[t[i].type] = RangeOf(t, i, RegionPushed)]_vars
C27_Witness ==
    /\ stream[1].shape = "unordered" /\ lastResult.tag = "Some" /\ input = <<>>
    /\ sections = ShapeOf("unordered").table
    /\ lastResult.msg[1].encapsulated.req_header # None
    /\ lastResult.msg[1].encapsulated.res_header # None
\* The head of the message has been pushed whole.
HeadPushed == input = <<>>
\* The errors parse_encapsulated returns for an item.
ItemErrors ==
    {Error("Protocol", "Missing header value"),
     Error("Protocol", "Invalid header value offset"),
     Error("Protocol", "Invalid encapsulated header")}

\* C28: the encapsulation table is sorted strictly ascending by offset for
\* every declaration order: no two entries of the table have the same offset
\* and every entry's offset is smaller than the next entry's.
C28_StrictlyAscending ==
    \A i \in 1..(Len(sections) - 1) : sections[i].offset < sections[i + 1].offset

\* C29: whitespace around each item of the Encapsulated value and on both
\* sides of '=' is tolerated: 'req-hdr=0', ' req-hdr = 0 ' and 'req-hdr= 0'
\* all parse to the same (RequestHeader, 0) entry and none is an error.
C29_WhitespaceTolerated ==
    (stream[1].family = "space" /\ HeadPushed) =>
        /\ ~errored
        /\ sections = stream[1].table

ChunkPushed == Len(ChunkRegion(stream[1])) - Len(input')
\* The call of a step is the first on the parser and leaves in the buffer
\* the bytes of the body range that an input of the family is about.
FirstCallPast(family) ==
    /\ stream[1].body.family = family
    /\ lastResult = NoCall
    /\ ChunkPushed >= stream[1].body.mark
\* A non-empty sequence of hexadecimal digits.
IsHexDigits(s) == s # <<>> /\ \A i \in DOMAIN s : ToLower(s[i]) \in Range(HexDigits)
InvalidChunkSize == Error("Protocol", "Invalid chunk size")

\* C31: in a chunk-decoded section, a size line whose trimmed content is not
\* a sequence of hexadecimal digits makes parse return an invalid-chunk-size
\* error (and a size line of hexadecimal digits does not).
C31_NonHexSizeIsError ==
    [][FirstCallPast("size") =>
          IF IsHexDigits(Trim(stream[1].body.tok))
          THEN lastResult'.err # Some(InvalidChunkSize)
          ELSE lastResult'.tag = "Err" /\ lastResult'.err = Some(InvalidChunkSize)]_vars
InvalidChunkEncoding == Error("Protocol", "Invalid chunk encoding")
\* The call of a step is the first on the parser and leaves in the buffer
\* the size line of a chunk, but not all of its data and the two bytes
\* after them.
FirstCallInsideChunk ==
    /\ stream[1].body.family = "crlf"
    /\ lastResult = NoCall
    /\ ChunkPushed >= stream[1].body.sizeEnd
    /\ ChunkPushed < stream[1].body.mark

\* C32: in a chunk-decoded section, when the data of a non-zero chunk and
\* the two bytes after them are available and those two bytes are not CR LF,
\* parse returns a protocol error (invalid chunk encoding); when they are
\* not yet available it returns Ok(None) rather than an error.
C32_CrlfAfterChunkData ==
    [][/\ (FirstCallPast("crlf") /\ stream[1].body.two # CRLF) =>
             lastResult'.tag = "Err" /\ lastResult'.err = Some(InvalidChunkEncoding)
       /\ FirstCallInsideChunk => lastResult'.tag = "None"]_vars
\* C33: a chunk size of 0 terminates the body section: every byte of the
\* range after the zero-size line (final CRLF, trailer headers) is ignored
\* and adds nothing to the decoded payload, and the section is then
\* complete: the message is returned once no later section waits for bytes.
C33_ZeroChunkEndsBody ==
    [][FirstCallPast("zero") =>
          IF stream[1].shape = "last" \/ ChunkPushed >= Len(stream[1].body.raw)
          THEN /\ lastResult'.tag = "Some"
               /\ lastResult'.msg[1].encapsulated.req_body = Some(stream[1].body.payload)
          ELSE lastResult'.tag = "None"]_vars
C33_Witness ==
    /\ stream[1].body.family = "zero"
    /\ Len(stream[1].body.raw) > stream[1].body.mark + Len(CRLF)
    /\ stream[1].body.payload # <<>>
    /\ input = <<>>
    /\ out = <<lastResult.msg[1]>>
    /\ lastResult.msg[1].encapsulated.req_body = Some(stream[1].body.payload)
\* The header map that holds the lines of block, each under its name in
\* lower case with its trimmed value, and nothing else.
HoldsExactly(m, block) ==
    /\ DOMAIN m = {LowerStr(block[i].name) : i \in DOMAIN block}
    /\ \A i \in DOMAIN block : m[LowerStr(block[i].name)] = block[i].value
\* The bytes of the input up to the end of its line without a colon, and the
\* bytes pushed so far.
ColonlessEnd(d) == Len(HeaderLinesStart \o BlockBytes(d.before) \o d.bad[1] \o CRLF)
PushedOf(d, rest) == Len(HeaderLinesBytes(d)) - Len(rest)

\* C34: each non-empty header line is split at its first colon into name
\* and value (the bytes after it, trimmed of leading and trailing
\* whitespace, further colons kept); a non-empty line without a colon makes
\* parse return an invalid-format error; an empty line ends the block.
C34_HeaderLineSplit ==
    [][\E d \in {stream[1]} :
         IF input = <<>> THEN TRUE
         ELSE IF d.bad = <<>>
         THEN IF input' = <<>>
              THEN /\ lastResult'.tag = "Some"
                   /\ HoldsExactly(lastResult'.msg[1].headers, d.before \o d.after)
              ELSE lastResult'.tag = "None"
         ELSE /\ PushedOf(d, input') < ColonlessEnd(d) => lastResult'.tag = "None"
              /\ (PushedOf(d, input) < ColonlessEnd(d)
                    /\ PushedOf(d, input') >= ColonlessEnd(d)) =>
                     /\ lastResult'.tag = "Err"
                     /\ lastResult'.err[1].kind = "InvalidFormat"
                     /\ HoldsExactly(headers', d.before)]_vars
C34_Witness ==
    /\ stream[1].bad = <<>> /\ input = <<>> /\ lastResult.tag = "Some"
    /\ Len(stream[1].before) = 2
    /\ stream[1].before[1].name = <<"B">>
    /\ HeaderGet(lastResult.msg[1].headers, <<"b">>) = Some(<<"a",COLON,"b",COLON,"c">>)
\* A line and the terminator read_line may have taken with it.
LineAndTerminator(line, term) ==
    /\ LF \notin Range(line)
    /\ term \in {<<LF>>, CRLF}
    /\ term = <<LF>> => (line = <<>> \/ line[Len(line)] # CR)

\* C35: read_line returns the lines of the buffer in order, one per call,
\* each without its terminator (a CRLF or a bare LF, one CR before the LF
\* being part of the terminator), and removes exactly the line and its
\* terminator from the front of the buffer; when the buffer has no LF it
\* returns None and leaves the buffer unchanged.
C35_ReadLine ==
    [][IF LF \in Range(buffer)
       THEN /\ lastResult'.tag = "Line"
            /\ out' = Append(out, lastResult'.msg[1])
            /\ \E term \in {<<LF>>, CRLF} :
                  /\ LineAndTerminator(lastResult'.msg[1], term)
                  /\ buffer = lastResult'.msg[1] \o term \o buffer'
       ELSE lastResult'.tag = "NoLine" /\ buffer' = buffer /\ out' = out]_vars
C35_Witness ==
    /\ stream[1] = <<"a", CR, CR, LF, LF>>
    /\ out = << <<"a", CR>>, <<>> >>
    /\ buffer = <<>>
    /\ lastResult.tag = "Line"
\* C36: parse advances through the states as long as each has the data to
\* finish: it never returns Ok(None) while the buffer holds every byte of a
\* complete message (also when an empty line precedes the start line), so a
\* parse call with zero bytes after an Ok(None) never returns a message.
C36_NoMessageHeldBack ==
    lastResult.tag = "None" => parse(Self, <<>>).res.tag # "Some"
\* C37: parse_body never reads the receive buffer at an index greater than
\* or equal to its length, for every encapsulation table and every buffer
\* content: when a chunk-decoded body section is not the last entry and the
\* next entry's offset is beyond the bytes received, parse returns Ok(None)
\* or Err and does not panic on an index out of bounds.
C37_NoIndexOutOfBounds ==
    /\ lastResult.tag # "Panic"
    /\ lastResult.err # Some(Panic("index out of bounds"))
\* The five states of crate::State.
StateNames == {"StartLine", "Headers", "EncapsulatedHeader", "Body", "Complete"}

\* C38: every parse call terminates and returns at most one message: the
\* driver loop makes at most one pass StartLine, ..., Complete (at most five
\* state steps, no state twice) and returns as soon as a state needs more
\* data or fails (the parser stays in that state), or the message is built.
C38_OnePassPerCall ==
    [][\E st \in {parse(Self, PushedNow).steps} :
          /\ st[1] = state
          /\ Len(st) <= Cardinality(StateNames)
          /\ \A i \in 1..(Len(st) - 1) : st[i + 1] = CycleNext(st[i]) /\ st[i] # "Complete"
          /\ \A i, j \in DOMAIN st : st[i] = st[j] => i = j
          /\ IF lastResult'.tag = "Some"
             THEN /\ st[Len(st)] = "Complete"
                  /\ out' = Append(out, lastResult'.msg[1])
                  /\ state' = "StartLine"
             ELSE out' = out /\ state' = st[Len(st)]]_vars
C38_Witness ==
    /\ stream = <<1, 1>> /\ input = <<>>
    /\ lastResult.tag = "Some" /\ out = <<lastResult.msg[1]>>
    /\ state = "StartLine"
\* The section kinds of the section table.
KindsOf(secs) == {secs[i].type : i \in DOMAIN secs}

\* C39: whenever the parser is in state Body or Complete, the section kinds
\* of the section table (sections) are the keys of the section-payload map
\* (encapsulated), for every sequence of messages parsed on the same
\* instance.
C39_SectionsMatchPayloads ==
    state \in {"Body", "Complete"} => KindsOf(sections) = DOMAIN encapsulated

\* C40: after k advance calls on a ByteParser made over B, position() is k,
\* slice() followed by remaining() is B, peek() is the byte of B at index k
\* or None when k is at least len(B), and no call fails, however many times
\* advance was called.
C40_ByteParserTotal ==
    /\ lastResult.tag # "Panic"
    /\ ByteParser_position(byteParser) = advances
    /\ ByteParser_peek(byteParser) =
         IF advances < Len(byteParser.bytes)
         THEN Some(byteParser.bytes[advances + 1]) ELSE None
    /\ \E s \in {ByteParser_slice(byteParser)} :
       \E r \in {ByteParser_remaining(byteParser)} :
          /\ s.err = None
          /\ r.err = None
          /\ s.val[1] \o r.val[1] = byteParser.bytes

=============================================================================
